---------------------------- MODULE Spec2Model ----------------------------
(***************************************************************************)
(* Model of the meta-tags-preview application:                              *)
(*   - src/src/lib/path-tree.ts   the path tree (build, limit, query)       *)
(*   - src/src/app/page.tsx       the page's state and its handlers         *)
(*   - src/unnamed/part_001       the sidebar (PathTreeSidebar)             *)
(*   - src/unnamed/part_000       the fetch-meta and parse-sitemap routes   *)
(*                                                                         *)
(* A JavaScript string is a sequence of one-character strings, so that      *)
(* splitting, joining, prefix tests and sorting are computed and not        *)
(* assumed.  A JavaScript Set of strings is a duplicate-free sequence in    *)
(* insertion order; a Map of children is a sequence of nodes with distinct  *)
(* names in insertion order.                                                *)
(***************************************************************************)
EXTENDS Integers, Sequences, FiniteSets, TLC

VARIABLES
    phase,              \* SpecTree: "input" | "built"; Spec: "page";
                        \* SpecFetchRun: "runIn" | "running";
                        \* SpecFetchMeta: "metaIn" | "metaOut";
                        \* SpecParseSitemap: "parseIn" | "parseOut"
    sitemapUrl,         \* page.tsx:530
    urls,               \* page.tsx:531
    metaResults,        \* page.tsx:532
    isLoadingSitemap,   \* page.tsx:533
    isFetchingMeta,     \* page.tsx:534
    progress,           \* page.tsx:535
    error,              \* page.tsx:536
    selectedUrls,       \* page.tsx:537
    expandedPaths,      \* page.tsx:538
    selectedPath,       \* page.tsx:539
    maxPathsPerParent,  \* page.tsx:541
    hasSearched,        \* page.tsx:542
    tree,               \* page.tsx:546 (useMemo), buildPathTree's result
    stats,              \* page.tsx:546 (useMemo), buildPathTree's result
    limitedUrls,        \* page.tsx:568 (useMemo)
    run,                \* handleFetchMetaTags' locals and its request in flight
    requests,           \* the batch requests a fetch run has issued so far
    last,               \* the last handler that wrote urls, the limit, the selection
                        \* or the fetch run, with its input
    reqBody,            \* part_000: the body of the request a route handler is given
    web,                \* part_000: what fetching each URL gives
    response,           \* part_000: the handler's response
    fetched,            \* part_000: the URLs the handler has fetched, in order
    route               \* part_000: POST (fetch-meta) between its awaits: its
                        \* locals and the page fetches of the sub-batch

vars == <<phase, sitemapUrl, urls, metaResults, isLoadingSitemap, isFetchingMeta,
          progress, error, selectedUrls, expandedPaths, selectedPath,
          maxPathsPerParent, hasSearched, tree, stats, limitedUrls, run,
          requests, last,
          reqBody, web, response, fetched, route>>

serverVars == <<reqBody, web, response, fetched, route>>

-----------------------------------------------------------------------------
(* Bounds of the model *)

\* longest URL list given to buildPathTree in SpecTree
MaxUrls == 3

\* largest per-parent limit tried (the page accepts 1..1000)
MaxLimit == 2

\* number of entries of the large sitemap of the page model
BigN == 12

-----------------------------------------------------------------------------
(* Sequences and strings *)

Min(a, b) == IF a < b THEN a ELSE b

Range(s) == {s[i] : i \in 1..Len(s)}

\* Array.prototype.slice(from, to) for 0 <= from and 0 <= to
Slice(s, from, to) == SubSeq(s, from + 1, Min(to, Len(s)))

\* all sequences over S of length at most n
SeqsUpTo(S, n) == UNION {[1..k -> S] : k \in 0..n}

\* number of indices of s whose element is in the set S
RECURSIVE CountIn(_, _)
CountIn(s, S) ==
    IF s = <<>> THEN 0
    ELSE (IF Head(s) \in S THEN 1 ELSE 0) + CountIn(Tail(s), S)

\* number of occurrences of x in s
Occurrences(s, x) == CountIn(s, {x})

\* String.prototype.split(sep), sep one character: the pieces, empty ones kept
RECURSIVE SplitFrom(_, _, _)
SplitFrom(s, sep, cur) ==
    IF s = <<>> THEN <<cur>>
    ELSE IF Head(s) = sep THEN <<cur>> \o SplitFrom(Tail(s), sep, <<>>)
    ELSE SplitFrom(Tail(s), sep, Append(cur, Head(s)))

Split(s, sep) == SplitFrom(s, sep, <<>>)

\* .filter(Boolean) on strings: the empty string is falsy
FilterNonEmpty(parts) == SelectSeq(parts, LAMBDA p : p # <<>>)

\* Array.prototype.join(sep)
RECURSIVE Join(_, _)
Join(parts, sep) ==
    IF parts = <<>> THEN <<>>
    ELSE IF Len(parts) = 1 THEN parts[1]
    ELSE parts[1] \o <<sep>> \o Join(Tail(parts), sep)

\* String.prototype.startsWith
StartsWith(s, p) == Len(p) <= Len(s) /\ SubSeq(s, 1, Len(p)) = p

\* decimal digits of a natural number, as a string
DigitChars == <<"0", "1", "2", "3", "4", "5", "6", "7", "8", "9">>

RECURSIVE Digits(_)
Digits(n) ==
    IF n < 10 THEN <<DigitChars[n + 1]>>
    ELSE Digits(n \div 10) \o <<DigitChars[(n % 10) + 1]>>

\* UTF-16 code unit of the characters the model's strings are made of
CharCode(c) ==
    CASE c = " " -> 32
      [] c = "," -> 44
      [] c = "/" -> 47
      [] c \in Range(DigitChars) -> 47 + (CHOOSE k \in 1..10 : DigitChars[k] = c)
      [] c = "?" -> 63
      [] c = "H" -> 72
      [] c = "a" -> 97
      [] c = "b" -> 98
      [] c = "o" -> 111
      [] c = "r" -> 114
      [] c = "t" -> 116

\* s < t for JavaScript strings (code unit order)
RECURSIVE StrLess(_, _)
StrLess(s, t) ==
    IF t = <<>> THEN FALSE
    ELSE IF s = <<>> THEN TRUE
    ELSE IF Head(s) = Head(t) THEN StrLess(Tail(s), Tail(t))
    ELSE CharCode(Head(s)) < CharCode(Head(t))

\* Array.prototype.sort() of strings (default comparison): insertion of x
\* into a sorted sequence, and the sort
RECURSIVE InsertString(_, _)
InsertString(sorted, x) ==
    IF sorted = <<>> THEN <<x>>
    ELSE IF StrLess(x, Head(sorted)) THEN <<x>> \o sorted
    ELSE <<Head(sorted)>> \o InsertString(Tail(sorted), x)

RECURSIVE SortStrings(_)
SortStrings(s) ==
    IF s = <<>> THEN <<>>
    ELSE InsertString(SortStrings(SubSeq(s, 1, Len(s) - 1)), s[Len(s)])

\* String.prototype.trim
RECURSIVE TrimStart(_)
TrimStart(s) == IF s # <<>> /\ Head(s) = " " THEN TrimStart(Tail(s)) ELSE s

RECURSIVE TrimEnd(_)
TrimEnd(s) ==
    IF s # <<>> /\ s[Len(s)] = " " THEN TrimEnd(SubSeq(s, 1, Len(s) - 1)) ELSE s

Trim(s) == TrimEnd(TrimStart(s))

\* Set.prototype.has, add and delete on a Set kept in insertion order
SetHas(set, x) == x \in Range(set)

SetAdd(set, x) == IF SetHas(set, x) THEN set ELSE Append(set, x)

SetDelete(set, x) == SelectSeq(set, LAMBDA y : y # x)

\* new Set(array)
RECURSIVE SetFrom(_)
SetFrom(array) ==
    IF array = <<>> THEN <<>>
    ELSE SetAdd(SetFrom(SubSeq(array, 1, Len(array) - 1)), array[Len(array)])

\* array.map((u) => u.loc)
Locs(entries) == [k \in 1..Len(entries) |-> entries[k].loc]

-----------------------------------------------------------------------------
(* new URL(loc): the part of the WHATWG parser the model's strings reach.   *)
(* "H" stands for a scheme and host ("https://h"); a string that does not   *)
(* start with it is a relative reference and new URL throws.  The pathname  *)
(* is what follows the host up to the query, "/" when that is empty.        *)

RECURSIVE UpToQuery(_)
UpToQuery(s) ==
    IF s = <<>> \/ Head(s) = "?" THEN <<>>
    ELSE <<Head(s)>> \o UpToQuery(Tail(s))

IsValidUrl(loc) == loc # <<>> /\ Head(loc) = "H"

Pathname(loc) ==
    LET p == UpToQuery(Tail(loc))
    IN  IF p = <<>> THEN <<"/">> ELSE p

\* parsed.pathname.split('/').filter(Boolean)
PathParts(loc) == FilterNonEmpty(Split(Pathname(loc), "/"))

-----------------------------------------------------------------------------
(* path-tree.ts *)

RootName == <<"r", "o", "o", "t">>

NewNode(name, fullPath) ==
    [name |-> name, fullPath |-> fullPath, urls |-> <<>>, isIncluded |-> TRUE,
     totalUrlCount |-> 0, limitedUrlCount |-> 0, children |-> <<>>]

EmptyRoot == NewNode(RootName, <<>>)

EmptyStats == [totalOriginalUrls |-> 0, totalLimitedUrls |-> 0]

\* children.has(segment)
HasChild(node, segment) ==
    \E k \in 1..Len(node.children) : node.children[k].name = segment

\* position of children.get(segment) in the map's insertion order
ChildIndex(kids, segment) ==
    CHOOSE k \in 1..Len(kids) : kids[k].name = segment

\* mutant: pathParts.slice(0, i) in place of pathParts.slice(0, i + 1)
FullPathOf_SliceToI(pathParts, i) ==
    <<"/">> \o Join(SubSeq(pathParts, 1, i - 1), "/")

\* the fullPath given to the node created for pathParts[i - 1] (0-based i)
FullPathOf(pathParts, i) == <<"/">> \o Join(SubSeq(pathParts, 1, i), "/")

\* the loop over path segments, from segment i (1-based) below `node`
RECURSIVE Descend(_, _, _, _)
Descend(node, pathParts, i, url) ==
    LET segment == pathParts[i]
        kids == IF HasChild(node, segment) THEN node.children
                ELSE Append(node.children, NewNode(segment, FullPathOf(pathParts, i)))
        k == ChildIndex(kids, segment)
        child == IF i = Len(pathParts)
                 THEN [kids[k] EXCEPT !.urls = Append(@, url)]
                 ELSE Descend(kids[k], pathParts, i + 1, url)
    IN  [node EXCEPT !.children = [kids EXCEPT ![k] = child]]

\* one iteration of the first pass
AddUrl(root, url) ==
    IF ~IsValidUrl(url.loc) THEN root
    ELSE LET pathParts == PathParts(url.loc)
         IN  IF Len(pathParts) = 0
             THEN [root EXCEPT !.urls = Append(@, url)]
             ELSE Descend(root, pathParts, 1, url)

RECURSIVE FirstPassFrom(_, _)
FirstPassFrom(root, list) ==
    IF list = <<>> THEN root
    ELSE FirstPassFrom(AddUrl(root, Head(list)), Tail(list))

FirstPass(list) == FirstPassFrom(EmptyRoot, list)

RECURSIVE hasAnyUrls(_)
hasAnyUrls(node) ==
    \/ Len(node.urls) > 0
    \/ \E k \in 1..Len(node.children) : hasAnyUrls(node.children[k])

RECURSIVE SumField(_, _)
SumField(kids, f) ==
    IF kids = <<>> THEN 0 ELSE Head(kids)[f] + SumField(Tail(kids), f)

\* mutant: the children's totals are left out
countAllUrls_OwnOnly(node) == Len(node.urls)

countAllUrls(node) == Len(node.urls) + SumField(node.children, "totalUrlCount")

\* mutant: no early return for an excluded node
countLimitedUrls_NoExcludedCheck(node) ==
    Len(node.urls) + SumField(node.children, "limitedUrlCount")

countLimitedUrls(node) ==
    IF ~node.isIncluded THEN 0
    ELSE Len(node.urls) + SumField(node.children, "limitedUrlCount")

\* the keys of the children that carry URLs, in the map's order
ChildrenWithUrls(node) ==
    LET withUrls == SelectSeq(node.children, hasAnyUrls)
    IN  [k \in 1..Len(withUrls) |-> withUrls[k].name]

\* mutant: the limit is applied to the root's children as well
IncludedChildren_RootLimited(node, maxChildrenPerParent) ==
    Range(Slice(ChildrenWithUrls(node), 0, maxChildrenPerParent))

\* mutant: slice(maxChildrenPerParent) in place of slice(0, maxChildrenPerParent)
IncludedChildren_SliceFrom(node, maxChildrenPerParent) ==
    IF node.fullPath = <<>>
    THEN Range(ChildrenWithUrls(node))
    ELSE Range(Slice(ChildrenWithUrls(node), maxChildrenPerParent,
                     Len(ChildrenWithUrls(node))))

IncludedChildren(node, maxChildrenPerParent) ==
    IF node.fullPath = <<>>
    THEN Range(ChildrenWithUrls(node))
    ELSE Range(Slice(ChildrenWithUrls(node), 0, maxChildrenPerParent))

\* mutant: the stats count the URLs of excluded nodes as limited
FinishNode_CountsExcluded(node, st) ==
    LET n1 == [node EXCEPT !.totalUrlCount = countAllUrls(node)]
        n2 == [n1 EXCEPT !.limitedUrlCount = countLimitedUrls(n1)]
    IN  [node |-> n2,
         stats |-> [totalOriginalUrls |-> st.totalOriginalUrls + Len(node.urls),
                    totalLimitedUrls |-> st.totalLimitedUrls + Len(node.urls)]]

\* the counts and the stats update that end markIncludedChildren
FinishNode(node, st) ==
    LET n1 == [node EXCEPT !.totalUrlCount = countAllUrls(node)]
        n2 == [n1 EXCEPT !.limitedUrlCount = countLimitedUrls(n1)]
    IN  [node |-> n2,
         stats |-> [totalOriginalUrls |-> st.totalOriginalUrls + Len(node.urls),
                    totalLimitedUrls |-> st.totalLimitedUrls
                        + (IF node.isIncluded THEN Len(node.urls) ELSE 0)]]

\* markIncludedChildren returns the node as marked and the stats as updated;
\* MarkKids is its loop "Process all children", from child k on
RECURSIVE markIncludedChildren(_, _, _, _), MarkKids(_, _, _, _, _, _)
MarkKids(kids, k, st, parentIncluded, included, maxChildrenPerParent) ==
    IF k > Len(kids) THEN [kids |-> kids, stats |-> st]
    ELSE LET childIncluded == parentIncluded /\ kids[k].name \in included
             r == markIncludedChildren([kids[k] EXCEPT !.isIncluded = childIncluded],
                                       st, childIncluded, maxChildrenPerParent)
         IN  MarkKids([kids EXCEPT ![k] = r.node], k + 1, r.stats,
                      parentIncluded, included, maxChildrenPerParent)

markIncludedChildren(node, st, parentIncluded, maxChildrenPerParent) ==
    LET r == MarkKids(node.children, 1, st, parentIncluded,
                      IncludedChildren(node, maxChildrenPerParent),
                      maxChildrenPerParent)
    IN  FinishNode([node EXCEPT !.children = r.kids], r.stats)

buildPathTree(list, maxChildrenPerParent) ==
    LET r == markIncludedChildren(FirstPass(list), EmptyStats, TRUE,
                                  maxChildrenPerParent)
    IN  [tree |-> r.node, stats |-> r.stats]

\* mutant: isIncluded is not consulted
RECURSIVE getAllUrlsFromNode_IgnoresIncluded(_)
getAllUrlsFromNode_IgnoresIncluded(node) ==
    IF node.children = <<>> THEN node.urls
    ELSE node.urls
         \o getAllUrlsFromNode_IgnoresIncluded(Head(node.children))
         \o getAllUrlsFromNode_IgnoresIncluded(
                [node EXCEPT !.urls = <<>>, !.children = Tail(node.children)])

RECURSIVE getAllUrlsFromNode(_), LimitedOfKids(_)
LimitedOfKids(kids) ==
    IF kids = <<>> THEN <<>>
    ELSE getAllUrlsFromNode(Head(kids)) \o LimitedOfKids(Tail(kids))

getAllUrlsFromNode(node) ==
    IF ~node.isIncluded THEN <<>>
    ELSE node.urls \o LimitedOfKids(node.children)

RECURSIVE getAllOriginalUrlsFromNode(_), OriginalOfKids(_)
OriginalOfKids(kids) ==
    IF kids = <<>> THEN <<>>
    ELSE getAllOriginalUrlsFromNode(Head(kids)) \o OriginalOfKids(Tail(kids))

getAllOriginalUrlsFromNode(node) == node.urls \o OriginalOfKids(node.children)


\* a.localeCompare(b) < 0 for segment names made of lower-case letters,
\* where the collation is the alphabetical order
LocaleLess(a, b) == StrLess(a, b)

\* the children sorted by key: insertion of a child, and the sort
RECURSIVE InsertChild(_, _)
InsertChild(sorted, child) ==
    IF sorted = <<>> THEN <<child>>
    ELSE IF LocaleLess(child.name, Head(sorted).name) THEN <<child>> \o sorted
    ELSE <<Head(sorted)>> \o InsertChild(Tail(sorted), child)

\* mutant: the children in insertion order
SortedChildren_Unsorted(kids) == kids

RECURSIVE SortedChildren(_)
SortedChildren(kids) ==
    IF kids = <<>> THEN <<>>
    ELSE InsertChild(SortedChildren(SubSeq(kids, 1, Len(kids) - 1)), kids[Len(kids)])

\* mutant: the tri-state taken from the node's own URLs
FlatRow_OwnUrlsOnly(child, expanded, selected, depth) ==
    LET allUrls == child.urls
        selectedCount == Len(SelectSeq(allUrls, LAMBDA u : SetHas(selected, u.loc)))
    IN  [id |-> child.fullPath,
         name |-> child.name,
         fullPath |-> child.fullPath,
         depth |-> depth,
         urls |-> child.urls,
         urlCount |-> Len(child.urls),
         limitedUrlCount |-> child.limitedUrlCount,
         totalUrlCount |-> child.totalUrlCount,
         hasChildren |-> Len(child.children) > 0,
         isExpanded |-> child.fullPath \in expanded,
         isSelected |-> selectedCount = Len(allUrls) /\ Len(allUrls) > 0,
         isPartiallySelected |-> selectedCount > 0 /\ selectedCount < Len(allUrls),
         isLimited |-> child.totalUrlCount > child.limitedUrlCount,
         isIncluded |-> child.isIncluded]

\* the row flattenTree pushes for a child
FlatRow(child, expanded, selected, depth) ==
    LET allUrls == getAllOriginalUrlsFromNode(child)
        selectedCount == Len(SelectSeq(allUrls, LAMBDA u : SetHas(selected, u.loc)))
    IN  [id |-> child.fullPath,
         name |-> child.name,
         fullPath |-> child.fullPath,
         depth |-> depth,
         urls |-> child.urls,
         urlCount |-> Len(child.urls),
         limitedUrlCount |-> child.limitedUrlCount,
         totalUrlCount |-> child.totalUrlCount,
         hasChildren |-> Len(child.children) > 0,
         isExpanded |-> child.fullPath \in expanded,
         isSelected |-> selectedCount = Len(allUrls) /\ Len(allUrls) > 0,
         isPartiallySelected |-> selectedCount > 0 /\ selectedCount < Len(allUrls),
         isLimited |-> child.totalUrlCount > child.limitedUrlCount,
         isIncluded |-> child.isIncluded]

\* flattenTree; FlattenKids is its loop over the sorted children
RECURSIVE flattenTree(_, _, _, _), FlattenKids(_, _, _, _)
FlattenKids(sorted, expanded, selected, depth) ==
    IF sorted = <<>> THEN <<>>
    ELSE LET child == Head(sorted)
         IN  <<FlatRow(child, expanded, selected, depth)>>
             \o (IF child.fullPath \in expanded /\ Len(child.children) > 0
                 THEN flattenTree(child, expanded, selected, depth + 1)
                 ELSE <<>>)
             \o FlattenKids(Tail(sorted), expanded, selected, depth)

flattenTree(node, expanded, selected, depth) ==
    FlattenKids(SortedChildren(node.children), expanded, selected, depth)

-----------------------------------------------------------------------------
(* part_001: PathTreeSidebar *)

\* getNodeByPath, from part k (1-based) of the split path; the result is
\* [found, node], found FALSE standing for null
RECURSIVE NodeByParts(_, _, _)
NodeByParts(current, parts, k) ==
    IF k > Len(parts) THEN [found |-> TRUE, node |-> current]
    ELSE IF ~HasChild(current, parts[k]) THEN [found |-> FALSE, node |-> current]
    ELSE NodeByParts(current.children[ChildIndex(current.children, parts[k])],
                     parts, k + 1)

getNodeByPath(root, path) == NodeByParts(root, FilterNonEmpty(Split(path, "/")), 1)

-----------------------------------------------------------------------------
(* The sitemap entries of the model.  Only loc is read by the code modelled *)
(* (lastmod, changefreq and priority are carried along untouched).          *)

Entry(loc) == [loc |-> loc]

LocBad    == <<"/", "a">>
LocRoot   == <<"H">>
LocA      == <<"H", "/", "a">>
LocASlash == <<"H", "/", "a", "/">>
LocAA     == <<"H", "/", "a", "/", "a">>
LocAB     == <<"H", "/", "a", "/", "b">>
LocAAB    == <<"H", "/", "a", "/", "a", "b">>
LocABA    == <<"H", "/", "a", "/", "b", "/", "a">>
LocB      == <<"H", "/", "b">>

TreeLocs == {LocBad, LocRoot, LocA, LocASlash, LocAA, LocAB, LocAAB, LocABA, LocB}

TreeEntries == {Entry(l) : l \in TreeLocs}

-----------------------------------------------------------------------------
(* page.tsx: the state after construction (useState initial values) *)

NoError == "<null>"
NoPath == <<"<null>">>
NoRun == [active |-> FALSE, urlsToFetch |-> <<>>, i |-> 0, allResults |-> <<>>,
          batch |-> <<>>]
NoLast == [name |-> "init", group |-> <<>>, before |-> <<>>]

\* the routes at rest: no request, nothing fetched, no response
NoBody == [kind |-> "none"]
NoWeb == [kind |-> "none"]
NoResponse == [status |-> 0]
NoRoute == [busy |-> FALSE, urlsToProcess |-> <<>>, i |-> 0, results |-> <<>>,
            fetches |-> <<>>]

PageInit ==
    /\ sitemapUrl = <<>>
    /\ metaResults = <<>>
    /\ isLoadingSitemap = FALSE
    /\ isFetchingMeta = FALSE
    /\ progress = 0
    /\ error = NoError
    /\ selectedUrls = <<>>
    /\ expandedPaths = {}
    /\ selectedPath = NoPath
    /\ hasSearched = FALSE
    /\ run = NoRun
    /\ requests = <<>>
    /\ last = NoLast
    /\ reqBody = NoBody
    /\ web = NoWeb
    /\ response = NoResponse
    /\ fetched = <<>>
    /\ route = NoRoute

pageOnly == <<sitemapUrl, metaResults, isLoadingSitemap, isFetchingMeta, progress,
              error, selectedUrls, expandedPaths, selectedPath, hasSearched, run,
              requests, last>>

-----------------------------------------------------------------------------
(* SpecTree: buildPathTree and getAllUrlsFromNode applied to every URL list *)
(* of at most MaxUrls entries and every limit of 0..MaxLimit.               *)

TreeInit ==
    /\ phase = "input"
    /\ urls \in SeqsUpTo(TreeEntries, MaxUrls)
    /\ maxPathsPerParent \in 0..MaxLimit
    /\ tree = EmptyRoot
    /\ stats = EmptyStats
    /\ limitedUrls = <<>>
    /\ PageInit

Build ==
    /\ phase = "input"
    /\ LET r == buildPathTree(urls, maxPathsPerParent)
       IN  /\ tree' = r.tree
           /\ stats' = r.stats
           /\ limitedUrls' = getAllUrlsFromNode(r.tree)
    /\ phase' = "built"
    /\ UNCHANGED <<urls, maxPathsPerParent>>
    /\ UNCHANGED pageOnly
    /\ UNCHANGED serverVars

TreeNext == Build

SpecTree == TreeInit /\ [][TreeNext]_vars


-----------------------------------------------------------------------------
(* Vocabulary of the claims about a built tree *)

\* every node of a tree with the segments that lead to it from the root
RECURSIVE Placed(_, _)
Placed(node, path) ==
    {[path |-> path, node |-> node]}
    \cup UNION {Placed(node.children[k], Append(path, node.children[k].name)) :
                    k \in 1..Len(node.children)}

PlacedIn(t) == Placed(t, <<>>)

NodeAt(t, path) == (CHOOSE e \in PlacedIn(t) : e.path = path).node

ParentPath(path) == SubSeq(path, 1, Len(path) - 1)

IsPrefix(p, s) == Len(p) <= Len(s) /\ SubSeq(s, 1, Len(p)) = p

\* the input entries that parse as an absolute URL, in input order
ValidUrls(list) == SelectSeq(list, LAMBDA u : IsValidUrl(u.loc))

\* the input entries whose path is exactly `path`, in input order
UrlsEndingAt(list, path) ==
    SelectSeq(list, LAMBDA u : IsValidUrl(u.loc) /\ PathParts(u.loc) = path)

\* every non-empty prefix of the path of a valid input entry, and the root
PathPrefixes(list) ==
    {<<>>} \cup UNION {{SubSeq(PathParts(list[i].loc), 1, n) :
                            n \in 1..Len(PathParts(list[i].loc))} :
                       i \in {j \in 1..Len(list) : IsValidUrl(list[j].loc)}}

\* the position in the input of the first entry whose path passes through `path`
FirstSeen(list, path) ==
    CHOOSE i \in 1..Len(list) :
        /\ IsValidUrl(list[i].loc) /\ IsPrefix(path, PathParts(list[i].loc))
        /\ \A j \in 1..(i - 1) :
              ~(IsValidUrl(list[j].loc) /\ IsPrefix(path, PathParts(list[j].loc)))

\* the number of siblings of `path` that the input reaches before it
RankAmongSiblings(list, path) ==
    Cardinality({q \in PathPrefixes(list) :
                    /\ q # <<>> /\ q # path /\ ParentPath(q) = ParentPath(path)
                    /\ FirstSeen(list, q) < FirstSeen(list, path)})

\* a node and all its ancestors below the root are included
ChainIncluded(t, path) ==
    \A n \in 1..Len(path) : NodeAt(t, SubSeq(path, 1, n)).isIncluded

IncludedPaths(t) == {e.path : e \in {x \in PlacedIn(t) : x.node.isIncluded}}

-----------------------------------------------------------------------------
(* Claims about buildPathTree (SpecTree) *)

\* C1: the first pass attaches every input URL that parses to exactly one
\* node, the one its non-empty path segments lead to (the root for none),
\* creates exactly one node per distinct path prefix, with fullPath "/" +
\* segments joined by "/", and keeps the input order within a node.
C1_FirstPassShape ==
    phase = "built" =>
        /\ {e.path : e \in PlacedIn(tree)} = PathPrefixes(urls)
        /\ Cardinality(PlacedIn(tree)) = Cardinality(PathPrefixes(urls))
        /\ \A e \in PlacedIn(tree) :
              /\ e.node.urls = UrlsEndingAt(urls, e.path)
              /\ e.node.fullPath =
                    (IF e.path = <<>> THEN <<>> ELSE <<"/">> \o Join(e.path, "/"))
              /\ e.node.name = (IF e.path = <<>> THEN RootName ELSE e.path[Len(e.path)])

\* the spec's scenario /a, /a/b, /c: children a (own URL /a, child b) and c
C1_Witness ==
    /\ phase = "built"
    /\ urls = <<Entry(LocA), Entry(LocAB), Entry(LocB)>>
    /\ Len(tree.children) = 2
    /\ tree.children[1].name = <<"a">>
    /\ tree.children[1].urls = <<Entry(LocA)>>
    /\ Len(tree.children[1].children) = 1
    /\ tree.children[1].children[1].name = <<"b">>
    /\ tree.children[2].name = <<"b">>

\* C2: the root's totalUrlCount is the number of input entries, counted with
\* multiplicity, whose loc parses as an absolute URL; the others are dropped.
C2_RootTotalIsValidCount ==
    phase = "built" => tree.totalUrlCount = Len(ValidUrls(urls))

C2_Witness ==
    /\ phase = "built"
    /\ \E i, j, k \in 1..Len(urls) :
          /\ i < j /\ urls[i] = urls[j] /\ IsValidUrl(urls[i].loc)
          /\ ~IsValidUrl(urls[k].loc)
    /\ tree.totalUrlCount = 2

\* C3: in every node totalUrlCount is the node's own URLs plus its children's
\* totalUrlCount, limitedUrlCount is 0 for an excluded node and the same
\* recurrence over limitedUrlCount otherwise, and limited <= total.
C3_CountRecurrences ==
    phase = "built" =>
        \A e \in PlacedIn(tree) :
            LET n == e.node
            IN  /\ n.totalUrlCount = Len(n.urls) + SumField(n.children, "totalUrlCount")
                /\ n.limitedUrlCount =
                      (IF ~n.isIncluded THEN 0
                       ELSE Len(n.urls) + SumField(n.children, "limitedUrlCount"))
                /\ n.limitedUrlCount <= n.totalUrlCount

\* an excluded node with URLs below an included node with a larger total
C3_Witness ==
    /\ phase = "built"
    /\ \E e \in PlacedIn(tree) :
          /\ e.path # <<>>
          /\ ~e.node.isIncluded /\ e.node.totalUrlCount > 0
          /\ NodeAt(tree, ParentPath(e.path)).isIncluded
          /\ NodeAt(tree, ParentPath(e.path)).limitedUrlCount > 0
          /\ NodeAt(tree, ParentPath(e.path)).limitedUrlCount
                < NodeAt(tree, ParentPath(e.path)).totalUrlCount

\* C4: the root is included; a node below it is included iff its parent is
\* and either the parent is the root or the node is among the first
\* maxChildrenPerParent children of its parent in first-encounter order.
C4_InclusionRule ==
    phase = "built" =>
        /\ tree.isIncluded
        /\ \A e \in PlacedIn(tree) :
              e.path # <<>> =>
                (e.node.isIncluded <=>
                    /\ NodeAt(tree, ParentPath(e.path)).isIncluded
                    /\ \/ ParentPath(e.path) = <<>>
                       \/ RankAmongSiblings(urls, e.path) < maxPathsPerParent)

\* more root children than the limit, all included; a node that is the first
\* child of its parent and excluded all the same, because its parent is
C4_Witness ==
    /\ phase = "built"
    /\ maxPathsPerParent = 1
    /\ Len(tree.children) = 2
    /\ \A k \in 1..2 : tree.children[k].isIncluded
    /\ \E e \in PlacedIn(tree) :
          /\ Len(e.path) = 3
          /\ ~e.node.isIncluded
          /\ ~NodeAt(tree, ParentPath(e.path)).isIncluded
          /\ RankAmongSiblings(urls, e.path) = 0

\* C5: getAllUrlsFromNode(root) returns, with multiplicity, exactly the URLs
\* attached to nodes that are included together with all their ancestors.
C5_LimitedUrlsExact ==
    phase = "built" =>
        \A u \in Range(urls) \cup Range(limitedUrls) :
            Occurrences(limitedUrls, u) =
                (IF IsValidUrl(u.loc) /\ ChainIncluded(tree, PathParts(u.loc))
                 THEN Occurrences(urls, u) ELSE 0)

\* a URL returned twice, and a URL left out because its parent is excluded
C5_Witness ==
    /\ phase = "built"
    /\ \E u \in Range(limitedUrls) : Occurrences(limitedUrls, u) = 2
    /\ \E u \in Range(urls) :
          /\ IsValidUrl(u.loc)
          /\ u \notin Range(limitedUrls)

\* C6: with the same URL list, every node included under a limit is included
\* under every larger limit, the limited URL set only grows and no node's
\* limitedUrlCount decreases.
C6_LimitMonotone ==
    phase = "built" =>
        \A m \in maxPathsPerParent..MaxLimit :
            LET t == buildPathTree(urls, m).tree
            IN  /\ IncludedPaths(tree) \subseteq IncludedPaths(t)
                /\ Range(limitedUrls) \subseteq Range(getAllUrlsFromNode(t))
                /\ \A e \in PlacedIn(tree) :
                      e.node.limitedUrlCount <= NodeAt(t, e.path).limitedUrlCount

\* a larger limit that brings an excluded node back
C6_Witness ==
    /\ phase = "built"
    /\ \E m \in (maxPathsPerParent + 1)..MaxLimit :
          /\ IncludedPaths(tree) # IncludedPaths(buildPathTree(urls, m).tree)
          /\ tree.limitedUrlCount < buildPathTree(urls, m).tree.limitedUrlCount


-----------------------------------------------------------------------------
(* part_000, fetch-meta route: POST and processUrl.  `bad` maps each page   *)
(* whose fetch fails to the way it fails; every other page is fetched and   *)
(* parsed.  A URL is a sequence of characters, the empty one being << >>;   *)
(* the texts taken from a page are opaque strings.                          *)

RouteUrlCap == 50
RouteBatchSize == 5

\* fetchPageContent and extractMetaTags: the ways processUrl's try block fails
PageFailures == {"timeout", "http", "network", "parse", "nonError"}

\* error instanceof Error ? error.message : 'Unknown error'
FailureMessage(kind) ==
    CASE kind = "timeout" -> "This operation was aborted"
      [] kind = "http" -> "HTTP 404: Not Found"
      [] kind = "network" -> "fetch failed"
      [] kind = "parse" -> "Invalid URL"
      [] kind = "nonError" -> "Unknown error"

\* a PageMetaData with every field but url at its empty default
EmptyMeta(url) ==
    [url |-> url, title |-> "", description |-> "", canonical |-> <<>>,
     ogTitle |-> "", ogDescription |-> "", ogImage |-> "", ogUrl |-> "",
     ogType |-> "", ogSiteName |-> "", twitterCard |-> "", twitterTitle |-> "",
     twitterDescription |-> "", twitterImage |-> "", twitterSite |-> "",
     favicon |-> <<>>, allMetaTags |-> <<>>, status |-> "", error |-> NoError]

\* extractMetaTags on a page that has a title and nothing else
extractMetaTags(url) ==
    [EmptyMeta(url) EXCEPT !.title = "title", !.canonical = url,
                           !.favicon = <<"H", "/favicon.ico">>,
                           !.status = "success"]

\* mutant: a page that fails gives the record of a page without a title
processUrl_HidesFailure(url, bad) ==
    [extractMetaTags(url) EXCEPT !.title = ""]

processUrl(url, bad) ==
    IF url \in DOMAIN bad
    THEN [EmptyMeta(url) EXCEPT !.status = "error",
                                !.error = FailureMessage(bad[url])]
    ELSE extractMetaTags(url)

\* mutant: urls.slice(0, 50) left out
UrlsToProcess_All(reqUrls) == reqUrls

\* urls.slice(0, 50)
UrlsToProcess(reqUrls) == Slice(reqUrls, 0, RouteUrlCap)

\* POST's loop from index i on; acc holds the results pushed and the pages
\* fetched so far
RECURSIVE RouteLoop(_, _, _, _)
RouteLoop(urlsToProcess, i, acc, bad) ==
    IF i >= Len(urlsToProcess) THEN acc
    ELSE LET batch == Slice(urlsToProcess, i, i + RouteBatchSize)
             batchResults == [k \in 1..Len(batch) |-> processUrl(batch[k], bad)]
         IN  RouteLoop(urlsToProcess, i + RouteBatchSize,
                       [results |-> acc.results \o batchResults,
                        fetched |-> acc.fetched \o batch],
                       bad)

\* results.filter((r) => r.status === 'error').length
ErrorCount(results) ==
    Cardinality({k \in 1..Len(results) : results[k].status = "error"})

\* POST: the response and the pages fetched, for a request body that is not
\* JSON ("badJson"), has no urls ("missing"), has urls that is not an array
\* ("notList") or has an array ("list")
RunFetchMeta(body, bad) ==
    IF body.kind = "badJson"
    THEN [response |-> [ok |-> FALSE, status |-> 500,
                        error |-> "Unexpected end of JSON input",
                        results |-> <<>>, processedCount |-> 0, errorCount |-> 0],
          fetched |-> <<>>]
    ELSE IF body.kind # "list" \/ Len(body.urls) = 0
    THEN [response |-> [ok |-> FALSE, status |-> 400,
                        error |-> "URLs array is required"],
          fetched |-> <<>>]
    ELSE LET r == RouteLoop(UrlsToProcess(body.urls), 0,
                            [results |-> <<>>, fetched |-> <<>>], bad)
         IN  [response |-> [ok |-> TRUE, status |-> 200, error |-> NoError,
                            results |-> r.results,
                            processedCount |-> Len(r.results),
                            errorCount |-> ErrorCount(r.results)],
              fetched |-> r.fetched]

\* the response data the page gets for a batch
PostFetchMeta(reqUrls, bad) ==
    RunFetchMeta([kind |-> "list", urls |-> reqUrls], bad).response

-----------------------------------------------------------------------------
(* The environment of the page model: what the user types, what the         *)
(* sitemap route answers, which pages fail.                                 *)

\* page.tsx: the initial limit, the largest limit accepted, the batch size
DefaultMaxPaths == 3
MaxAllowedLimit == 1000
FetchBatchSize == 10

SiteUrl == <<"H", "/", "s">>

SitemapInputs == {SiteUrl}

\* a section /a with its own page and two sub-pages
SmallSite == <<Entry(LocA), Entry(LocAA), Entry(LocAB)>>

\* a loc that does not parse, a page at the root, a section /b
RootSite == <<Entry(LocBad), Entry(LocRoot), Entry(LocB)>>

\* BigN pages that differ in the query: one batch of them under /a, the rest
\* under /b
BigLoc(i) == (IF i <= FetchBatchSize THEN LocA ELSE LocB) \o <<"?">> \o Digits(i)

BigSite == [i \in 1..BigN |-> Entry(BigLoc(i))]

\* a section /a and a section /ax, whose name starts with that of the other
LocAX == <<"H", "/", "a", "x">>

PrefixSite == <<Entry(LocA), Entry(LocAX)>>

SiteLists == {SmallSite, RootSite, BigSite, PrefixSite}

ParseErrors == {"Failed to parse sitemap", "Failed to fetch sitemap: 404 Not Found"}

FetchErrors == {"Failed to fetch meta tags"}

\* the pages of a batch that fail: none or the first
BadChoices(batch) ==
    {[u \in S |-> "http"] : S \in {{}, {batch[k] : k \in 1..Min(1, Len(batch))}}}

\* what the limit input holds after a keystroke, as parseInt reads it
LimitInputs ==
    {[nan |-> TRUE, value |-> 0]}
    \cup {[nan |-> FALSE, value |-> v] : v \in (0..MaxLimit) \cup {MaxAllowedLimit + 1}}

-----------------------------------------------------------------------------
(* page.tsx: derived values *)

\* useMemo of tree and stats
TreeMemo(list, maxChildrenPerParent) ==
    IF Len(list) = 0 THEN [tree |-> EmptyRoot, stats |-> EmptyStats]
    ELSE buildPathTree(list, maxChildrenPerParent)

limitedUrlsKey(limited) == Join(SortStrings(Locs(limited)), ",")

\* mutant: the limited URLs are added to the selection, not put in its place
RECURSIVE AutoSelect_Merges(_, _, _)
AutoSelect_Merges(prevKey, limited, selected) ==
    IF limited = <<>> THEN selected
    ELSE AutoSelect_Merges(prevKey, Tail(limited), SetAdd(selected, Head(limited).loc))

\* the effect on [limitedUrlsKey]: the selection after a render whose
\* previous key was prevKey
AutoSelect(prevKey, limited, selected) ==
    IF limitedUrlsKey(limited) # prevKey /\ Len(limited) > 0
    THEN SetFrom(Locs(limited))
    ELSE selected

\* a render after urls or maxPathsPerParent were set, with the effect;
\* `selected` is the selection the handler left
Render(newUrls, newMax, selected) ==
    LET m == TreeMemo(newUrls, newMax)
        limited == getAllUrlsFromNode(m.tree)
    IN  /\ urls' = newUrls
        /\ maxPathsPerParent' = newMax
        /\ tree' = m.tree
        /\ stats' = m.stats
        /\ limitedUrls' = limited
        /\ selectedUrls' = AutoSelect(limitedUrlsKey(limitedUrls), limited, selected)

built == <<urls, maxPathsPerParent, tree, stats, limitedUrls>>

\* the rows the sidebar shows
flatNodes == flattenTree(tree, expandedPaths, selectedUrls, 0)

\* the results the page shows
filteredResults ==
    IF selectedPath \in {NoPath, <<>>} \/ Len(metaResults) = 0 THEN metaResults
    ELSE SelectSeq(metaResults,
             LAMBDA result :
                 IF ~IsValidUrl(result.url) THEN FALSE
                 ELSE LET path == Pathname(result.url)
                      IN  IF selectedPath = <<"/">>
                          THEN path = <<"/">> \/ path = <<>>
                          ELSE StartsWith(path, selectedPath))

\* mutant: the search controls are disabled by isLoadingSitemap only
SearchEnabled_IgnoresFetch == ~isLoadingSitemap

\* the sitemap input and its button are enabled
SearchEnabled ==
    IF ~hasSearched THEN ~isLoadingSitemap
    ELSE ~(isLoadingSitemap \/ isFetchingMeta)

\* the sidebar is rendered
SidebarShown == hasSearched /\ Len(urls) > 0

\* the card with the limit input and the Analyze button is rendered
WaitingCardShown ==
    /\ hasSearched
    /\ Len(urls) > 0 /\ Len(metaResults) = 0
    /\ ~isFetchingMeta /\ ~isLoadingSitemap

\* an Analyze button is rendered and enabled
AnalyzeEnabled ==
    /\ hasSearched
    /\ \/ Len(urls) > 0 /\ (isFetchingMeta \/ Len(metaResults) > 0)
       \/ WaitingCardShown
    /\ ~(Len(selectedUrls) = 0 \/ isFetchingMeta)

\* the record of a handler that wrote the URL list, the limit, the selection
\* or the fetch run; a limit change records the selection it found
Did(name, group) ==
    [name |-> name, group |-> group,
     before |-> IF name = "setMax" THEN selectedUrls ELSE <<>>]

-----------------------------------------------------------------------------
(* page.tsx: handlers *)

\* onChange of the sitemap input
SetSitemapUrl(value) ==
    /\ phase = "page"
    /\ UNCHANGED serverVars
    /\ SearchEnabled
    /\ sitemapUrl' = value
    /\ UNCHANGED last
    /\ UNCHANGED <<phase, metaResults, isLoadingSitemap, isFetchingMeta, progress,
                   error, selectedUrls, expandedPaths, selectedPath, hasSearched,
                   run, requests>>
    /\ UNCHANGED built

\* mutant: the selection and the path filter are not reset
ParseStart_KeepsSelection ==
    /\ phase = "page"
    /\ UNCHANGED serverVars
    /\ SearchEnabled
    /\ Trim(sitemapUrl) # <<>>
    /\ hasSearched' = TRUE
    /\ isLoadingSitemap' = TRUE
    /\ error' = NoError
    /\ metaResults' = <<>>
    /\ expandedPaths' = {}
    /\ Render(<<>>, maxPathsPerParent, selectedUrls)
    /\ last' = [name |-> "parseStart", group |-> <<>>, before |-> <<>>]
    /\ UNCHANGED <<phase, sitemapUrl, isFetchingMeta, progress, run, requests,
                   selectedPath>>

\* handleParseSitemap up to its await
ParseStart ==
    /\ phase = "page"
    /\ UNCHANGED serverVars
    /\ SearchEnabled
    /\ Trim(sitemapUrl) # <<>>
    /\ hasSearched' = TRUE
    /\ isLoadingSitemap' = TRUE
    /\ error' = NoError
    /\ metaResults' = <<>>
    /\ expandedPaths' = {}
    /\ selectedPath' = NoPath
    /\ Render(<<>>, maxPathsPerParent, <<>>)
    /\ last' = Did("parseStart", <<>>)
    /\ UNCHANGED <<phase, sitemapUrl, isFetchingMeta, progress, run, requests>>

\* handleParseSitemap from its await on, the response being ok
ParseOk(list) ==
    /\ phase = "page"
    /\ UNCHANGED serverVars
    /\ isLoadingSitemap
    /\ Render(list, maxPathsPerParent, selectedUrls)
    /\ isLoadingSitemap' = FALSE
    /\ last' = Did("parseOk", <<>>)
    /\ UNCHANGED <<phase, sitemapUrl, metaResults, isFetchingMeta, progress, error,
                   expandedPaths, selectedPath, hasSearched, run, requests>>

\* handleParseSitemap from its await on, the request or the response failing
ParseFail(message) ==
    /\ phase = "page"
    /\ UNCHANGED serverVars
    /\ isLoadingSitemap
    /\ error' = message
    /\ isLoadingSitemap' = FALSE
    /\ last' = Did("parseFail", <<>>)
    /\ UNCHANGED <<phase, sitemapUrl, metaResults, isFetchingMeta, progress,
                   selectedUrls, expandedPaths, selectedPath, hasSearched, run,
                   requests>>
    /\ UNCHANGED built

\* onChange of the limit input, the value being accepted
SetMaxPathsPerParent(input) ==
    /\ phase = "page"
    /\ UNCHANGED serverVars
    /\ WaitingCardShown
    /\ ~input.nan /\ input.value > 0 /\ input.value <= MaxAllowedLimit
    /\ Render(urls, input.value, selectedUrls)
    /\ last' = Did(IF input.value = maxPathsPerParent THEN "sameMax" ELSE "setMax", <<>>)
    /\ UNCHANGED <<phase, sitemapUrl, metaResults, isLoadingSitemap, isFetchingMeta,
                   progress, error, expandedPaths, selectedPath, hasSearched, run,
                   requests>>


\* mutant: Math.ceil in the place of Math.round
RoundPercent_Ceil(done, total) == (100 * done + total - 1) \div total

\* Math.round(100 * done / total) for done >= 0 and total > 0
RoundPercent(done, total) == (200 * done + total) \div (2 * total)

\* handleFetchMetaTags up to its first await: the first batch is requested
FetchStart ==
    /\ phase = "page"
    /\ UNCHANGED serverVars
    /\ AnalyzeEnabled
    /\ Len(selectedUrls) # 0
    /\ isFetchingMeta' = TRUE
    /\ error' = NoError
    /\ metaResults' = <<>>
    /\ progress' = 0
    /\ LET urlsToFetch == selectedUrls
           batch == Slice(urlsToFetch, 0, FetchBatchSize)
       IN  /\ run' = [active |-> TRUE, urlsToFetch |-> urlsToFetch, i |-> 0,
                      allResults |-> <<>>, batch |-> batch]
           /\ requests' = <<batch>>
    /\ last' = Did("fetchStart", <<>>)
    /\ UNCHANGED <<phase, sitemapUrl, isLoadingSitemap, selectedUrls, expandedPaths,
                   selectedPath, hasSearched>>
    /\ UNCHANGED built

\* mutant: i += batchSize - 1
NextIndex_Overlaps(i) == i + FetchBatchSize - 1

\* the index the loop goes on with after the batch at i
NextIndex(i) == i + FetchBatchSize

\* handleFetchMetaTags from an await on, the response being ok: the results
\* are appended, and the next batch is requested or the run ends
FetchBatchOk(bad) ==
    /\ phase = "page"
    /\ UNCHANGED serverVars
    /\ run.active
    /\ LET data == PostFetchMeta(run.batch, bad)
           allResults == run.allResults \o data.results
           i == NextIndex(run.i)
           batch == Slice(run.urlsToFetch, i, i + FetchBatchSize)
       IN  /\ data.ok
           /\ metaResults' = allResults
           /\ IF i < Len(run.urlsToFetch)
              THEN /\ progress' = RoundPercent(Len(allResults), Len(run.urlsToFetch))
                   /\ run' = [run EXCEPT !.i = i, !.allResults = allResults,
                                         !.batch = batch]
                   /\ requests' = Append(requests, batch)
                   /\ UNCHANGED isFetchingMeta
              ELSE /\ progress' = 100
                   /\ isFetchingMeta' = FALSE
                   /\ run' = NoRun
                   /\ requests' = <<>>
    /\ last' = Did("fetchBatchOk", <<>>)
    /\ UNCHANGED <<phase, sitemapUrl, isLoadingSitemap, error, selectedUrls,
                   expandedPaths, selectedPath, hasSearched>>
    /\ UNCHANGED built

\* mutant: the catch block without the finally block
FetchBatchFail_NoFinally(message) ==
    /\ phase = "page"
    /\ UNCHANGED serverVars
    /\ run.active
    /\ error' = message
    /\ run' = NoRun
    /\ requests' = <<>>
    /\ last' = Did("fetchBatchFail", <<>>)
    /\ UNCHANGED <<phase, sitemapUrl, metaResults, isLoadingSitemap, selectedUrls,
                   expandedPaths, selectedPath, hasSearched, isFetchingMeta, progress>>
    /\ UNCHANGED built

\* handleFetchMetaTags from an await on, the request or the response failing
FetchBatchFail(message) ==
    /\ phase = "page"
    /\ UNCHANGED serverVars
    /\ run.active
    /\ error' = message
    /\ isFetchingMeta' = FALSE
    /\ progress' = 100
    /\ run' = NoRun
    /\ requests' = <<>>
    /\ last' = Did("fetchBatchFail", <<>>)
    /\ UNCHANGED <<phase, sitemapUrl, metaResults, isLoadingSitemap, selectedUrls,
                   expandedPaths, selectedPath, hasSearched>>
    /\ UNCHANGED built

\* handleToggleExpand's new set
ToggledExpanded(path) ==
    IF path \in expandedPaths THEN expandedPaths \ {path} ELSE expandedPaths \cup {path}

\* handleSelectPath's new path
ToggledPath(path) == IF path = selectedPath THEN NoPath ELSE path

uiOnly == <<phase, sitemapUrl, metaResults, isLoadingSitemap, isFetchingMeta,
            progress, error, hasSearched, run, requests>>

\* click on a row's chevron: handleToggleExpand
ToggleExpand(k) ==
    /\ phase = "page"
    /\ UNCHANGED serverVars
    /\ SidebarShown
    /\ k \in 1..Len(flatNodes)
    /\ flatNodes[k].hasChildren
    /\ expandedPaths' = ToggledExpanded(flatNodes[k].fullPath)
    /\ UNCHANGED last
    /\ UNCHANGED <<selectedUrls, selectedPath>>
    /\ UNCHANGED uiOnly
    /\ UNCHANGED built

\* click on a row: handleRowClick
RowClick(k) ==
    /\ phase = "page"
    /\ UNCHANGED serverVars
    /\ SidebarShown
    /\ k \in 1..Len(flatNodes)
    /\ expandedPaths' = (IF flatNodes[k].hasChildren
                         THEN ToggledExpanded(flatNodes[k].fullPath)
                         ELSE expandedPaths)
    /\ selectedPath' = ToggledPath(flatNodes[k].fullPath)
    /\ UNCHANGED last
    /\ UNCHANGED selectedUrls
    /\ UNCHANGED uiOnly
    /\ UNCHANGED built

\* click on the row of the root URLs: onSelectPath('/')
RootRowClick ==
    /\ phase = "page"
    /\ UNCHANGED serverVars
    /\ SidebarShown
    /\ Len(tree.urls) > 0
    /\ selectedPath' = ToggledPath(<<"/">>)
    /\ UNCHANGED last
    /\ UNCHANGED <<selectedUrls, expandedPaths>>
    /\ UNCHANGED uiOnly
    /\ UNCHANGED built

RECURSIVE DeleteEach(_, _)
DeleteEach(set, locs) ==
    IF locs = <<>> THEN set ELSE DeleteEach(SetDelete(set, Head(locs)), Tail(locs))

RECURSIVE AddEach(_, _)
AddEach(set, locs) ==
    IF locs = <<>> THEN set ELSE AddEach(SetAdd(set, Head(locs)), Tail(locs))

\* mutant: each URL of the group is toggled on its own
RECURSIVE handleToggleSelect_PerUrl(_, _)
handleToggleSelect_PerUrl(selected, urlsToToggle) ==
    IF urlsToToggle = <<>> THEN selected
    ELSE handleToggleSelect_PerUrl(
             IF SetHas(selected, Head(urlsToToggle).loc)
             THEN SetDelete(selected, Head(urlsToToggle).loc)
             ELSE SetAdd(selected, Head(urlsToToggle).loc),
             Tail(urlsToToggle))

\* handleToggleSelect's new selection
handleToggleSelect(selected, urlsToToggle) ==
    LET locs == Locs(urlsToToggle)
        allSelected == \A k \in 1..Len(locs) : SetHas(selected, locs[k])
    IN  IF allSelected THEN DeleteEach(selected, locs) ELSE AddEach(selected, locs)

\* onToggleSelect(urlsToToggle), from any of the sidebar's controls
ToggleSelect(urlsToToggle) ==
    /\ selectedUrls' = handleToggleSelect(selectedUrls, urlsToToggle)
    /\ last' = Did("toggle", Locs(urlsToToggle))
    /\ UNCHANGED <<expandedPaths, selectedPath>>
    /\ UNCHANGED uiOnly
    /\ UNCHANGED built

\* click on a row's checkbox: handleCheckboxClick
CheckboxClick(k) ==
    /\ phase = "page"
    /\ UNCHANGED serverVars
    /\ SidebarShown
    /\ k \in 1..Len(flatNodes)
    /\ LET treeNode == getNodeByPath(tree, flatNodes[k].fullPath)
       IN  /\ treeNode.found
           /\ ToggleSelect(getAllOriginalUrlsFromNode(treeNode.node))

\* click on the checkbox of the root URLs
RootCheckboxClick ==
    /\ phase = "page"
    /\ UNCHANGED serverVars
    /\ SidebarShown
    /\ Len(tree.urls) > 0
    /\ ToggleSelect(tree.urls)

\* the sidebar's Select All
SidebarSelectAll ==
    /\ phase = "page"
    /\ UNCHANGED serverVars
    /\ SidebarShown
    /\ LET allUrls == getAllOriginalUrlsFromNode(tree)
           urlsToAdd == SelectSeq(allUrls, LAMBDA u : ~SetHas(selectedUrls, u.loc))
       IN  /\ Len(urlsToAdd) > 0
           /\ ToggleSelect(urlsToAdd)

\* the sidebar's Deselect All
SidebarDeselectAll ==
    /\ phase = "page"
    /\ UNCHANGED serverVars
    /\ SidebarShown
    /\ LET allUrls == getAllOriginalUrlsFromNode(tree)
           urlsToRemove == SelectSeq(allUrls, LAMBDA u : SetHas(selectedUrls, u.loc))
       IN  /\ Len(urlsToRemove) > 0
           /\ ToggleSelect(urlsToRemove)

\* the header's Select All / Deselect All: toggleSelectAll
toggleSelectAll ==
    /\ phase = "page"
    /\ UNCHANGED serverVars
    /\ hasSearched /\ Len(urls) > 0
    /\ ~isFetchingMeta
    /\ selectedUrls' = (IF Len(selectedUrls) = Len(limitedUrls) THEN <<>>
                        ELSE SetFrom(Locs(limitedUrls)))
    /\ last' = Did("toggleSelectAll", <<>>)
    /\ UNCHANGED <<expandedPaths, selectedPath>>
    /\ UNCHANGED uiOnly
    /\ UNCHANGED built

-----------------------------------------------------------------------------
(* Spec: the page *)

Init ==
    /\ phase = "page"
    /\ urls = <<>>
    /\ maxPathsPerParent = DefaultMaxPaths
    /\ tree = EmptyRoot
    /\ stats = EmptyStats
    /\ limitedUrls = <<>>
    /\ PageInit

Next ==
    \/ \E value \in SitemapInputs : SetSitemapUrl(value)
    \/ ParseStart
    \/ \E list \in SiteLists : ParseOk(list)
    \/ \E message \in ParseErrors : ParseFail(message)
    \/ \E input \in LimitInputs : SetMaxPathsPerParent(input)
    \/ FetchStart
    \/ \E bad \in BadChoices(run.batch) : FetchBatchOk(bad)
    \/ \E message \in FetchErrors : FetchBatchFail(message)
    \/ \E k \in 1..Len(flatNodes) : ToggleExpand(k)
    \/ \E k \in 1..Len(flatNodes) : RowClick(k)
    \/ RootRowClick
    \/ \E k \in 1..Len(flatNodes) : CheckboxClick(k)
    \/ RootCheckboxClick
    \/ SidebarSelectAll
    \/ SidebarDeselectAll
    \/ toggleSelectAll

Spec == Init /\ [][Next]_vars


-----------------------------------------------------------------------------
(* Claims about the page (Spec) *)

Selected == Range(selectedUrls)

LimitedSet == Range(Locs(limitedUrls))

\* two lists hold the same URLs, each as often
SameMembers(a, b) ==
    \A x \in Range(a) \cup Range(b) : Occurrences(a, x) = Occurrences(b, x)

\* C7: a group toggle is all-or-nothing: with selection S and group G the
\* new selection is S minus G when all of G is in S and S union G otherwise;
\* URLs outside G keep their membership.
C7_ToggleAllOrNothing ==
    [][(last'.name = "toggle" /\ selectedUrls' # selectedUrls) =>
          LET G == Range(last'.group)
          IN  Range(selectedUrls') =
                 (IF G \subseteq Selected THEN Selected \ G ELSE Selected \cup G)]_vars

\* the section /a toggled with /a and /a/b selected and /a/a not: /a/a is
\* appended and nothing is removed
C7_Witness ==
    /\ last.name = "toggle"
    /\ last.group = <<LocA, LocAA, LocAB>>
    /\ selectedUrls = <<LocA, LocAB, LocAA>>

C9_ResolutionDiscardsState ==
    /\ (isLoadingSitemap \/ last.name = "parseFail") =>
          /\ urls = <<>>
          /\ tree = EmptyRoot
          /\ limitedUrls = <<>>
          /\ selectedUrls = <<>>
          /\ metaResults = <<>>
          /\ expandedPaths = {}
          /\ selectedPath = NoPath
    /\ last.name = "parseFail" => error # NoError /\ ~isLoadingSitemap
    /\ last.name = "parseOk" =>
          /\ tree = TreeMemo(urls, maxPathsPerParent).tree
          /\ Selected = Range(Locs(getAllUrlsFromNode(tree)))
          /\ Len(selectedUrls) = Cardinality(Selected)

\* a resolution in progress after an earlier one whose fetch run has ended
C9_Witness ==
    /\ isLoadingSitemap
    /\ progress = 100
    /\ selectedUrls = <<>>
    /\ metaResults = <<>>

\* C10: a fetch run cuts the selection it found into consecutive batches of
\* ten (the last one possibly shorter), requests batch k+1 only when the
\* results of batches 1..k are appended, never changes the snapshot, and
\* issues ceil(n/10) requests when none fails.
C10_SequentialBatches ==
    /\ [](run.active =>
            LET n == Len(run.urlsToFetch)
                k == Len(requests)
            IN  /\ k >= 1
                /\ \A j \in 1..k :
                      /\ requests[j] # <<>>
                      /\ requests[j] = SubSeq(run.urlsToFetch, 10 * (j - 1) + 1,
                                              Min(10 * j, n))
                /\ run.batch = requests[k]
                /\ [j \in 1..Len(run.allResults) |-> run.allResults[j].url]
                      = SubSeq(run.urlsToFetch, 1, 10 * (k - 1))
                /\ metaResults = run.allResults)
    /\ [][/\ (~run.active /\ run'.active) => run'.urlsToFetch = selectedUrls
          /\ (run.active /\ run'.active) => run'.urlsToFetch = run.urlsToFetch
          /\ (run.active /\ ~run'.active /\ last'.name = "fetchBatchOk") =>
                /\ Len(requests) = (Len(run.urlsToFetch) + 9) \div 10
                /\ Len(metaResults') = Len(run.urlsToFetch)]_vars

\* twelve URLs: the second request holds the last two, and the selection was
\* changed while the run was going on
C10_Witness ==
    /\ run.active
    /\ Len(run.urlsToFetch) = 12
    /\ Len(requests) = 2
    /\ Len(requests[1]) = 10
    /\ Len(requests[2]) = 2
    /\ selectedUrls # run.urlsToFetch

\* p is x = 100 * done / total rounded to the nearest integer, halves up
IsRounded(p, done, total) ==
    /\ 2 * total * p - total <= 200 * done
    /\ 200 * done < 2 * total * p + total

\* C11: a fetch run starts with progress 0; while it goes on progress is the
\* rounded percentage of the URLs whose batches are complete; no step of the
\* run lowers it; the run ends with progress 100.
C11_ProgressPerBatch ==
    /\ [](run.active =>
            IsRounded(progress, Len(run.allResults), Len(run.urlsToFetch)))
    /\ [][/\ (~run.active /\ run'.active) => progress' = 0
          /\ run.active => progress' >= progress
          /\ (run.active /\ ~run'.active) => progress' = 100]_vars

\* ten of twelve URLs are done: 83 percent
C11_Witness ==
    /\ run.active
    /\ Len(run.urlsToFetch) = 12
    /\ Len(run.allResults) = 10
    /\ progress = 83

-----------------------------------------------------------------------------
(* part_000, parse-sitemap route: fetchSitemap, parseSitemapXml,            *)
(* fetchNestedSitemaps and POST.  What fetching and parsing a URL gives is  *)
(* an outcome: a failure with its message, or the parsed document with the  *)
(* entries of its urlset and of its sitemapindex elements.  An entry        *)
(* without a loc element has loc NoLoc (undefined).                         *)

NestedCap == 10

NoLoc == <<"<undefined>">>

SitemapWord == <<"s", "i", "t", "e", "m", "a", "p">>
DotXml == <<".", "x", "m", "l">>

\* String.prototype.includes
Includes(s, sub) ==
    \E i \in 1..(Len(s) - Len(sub) + 1) : SubSeq(s, i, i + Len(sub) - 1) = sub

\* String.prototype.endsWith
EndsWith(s, suffix) ==
    /\ Len(s) >= Len(suffix)
    /\ SubSeq(s, Len(s) - Len(suffix) + 1, Len(s)) = suffix

FetchFailed(message) == [ok |-> FALSE, message |-> message]

Document(urlset, sitemapindex) ==
    [ok |-> TRUE, urlset |-> urlset, sitemapindex |-> sitemapindex]

\* fetchSitemap, then parser.parse: the outcome the web holds for a URL
FetchAndParse(w, loc) ==
    IF loc \in DOMAIN w THEN w[loc]
    ELSE FetchFailed("Failed to fetch sitemap: 404 Not Found")

\* parseSitemapXml on a parsed document: the url entries, then the sitemap
\* entries
parseSitemapXml(doc) == doc.urlset \o doc.sitemapindex

\* sitemapUrls.slice(0, 10)
SitemapsToFetch(sitemapUrls) == Slice(sitemapUrls, 0, NestedCap)

\* the loop over the settled results: the values of the fulfilled ones
RECURSIVE SettledValues(_, _)
SettledValues(w, sitemaps) ==
    IF sitemaps = <<>> THEN <<>>
    ELSE LET result == FetchAndParse(w, Head(sitemaps).loc)
         IN  (IF result.ok THEN parseSitemapXml(result) ELSE <<>>)
             \o SettledValues(w, Tail(sitemaps))

\* mutant: Promise.all in the place of Promise.allSettled, one rejection
\* leaving nothing
fetchNestedSitemaps_AllOrNothing(w, sitemapUrls) ==
    LET sitemapsToFetch == SitemapsToFetch(sitemapUrls)
    IN  [allUrls |-> IF \E k \in 1..Len(sitemapsToFetch) :
                            ~FetchAndParse(w, sitemapsToFetch[k].loc).ok
                     THEN <<>>
                     ELSE SettledValues(w, sitemapsToFetch),
         fetched |-> Locs(sitemapsToFetch)]

\* fetchNestedSitemaps: the entries gathered and the URLs fetched
fetchNestedSitemaps(w, sitemapUrls) ==
    LET sitemapsToFetch == SitemapsToFetch(sitemapUrls)
    IN  [allUrls |-> SettledValues(w, sitemapsToFetch),
         fetched |-> Locs(sitemapsToFetch)]

\* u.loc.endsWith('.xml') || u.loc.includes('sitemap'), for a loc that is a string
LooksLikeSitemap(loc) == EndsWith(loc, DotXml) \/ Includes(loc, SitemapWord)

\* urls.every(...) from position k on: TRUE, FALSE, or "throws" when it
\* comes to an entry whose loc is undefined
RECURSIVE EveryLooksLikeSitemap(_, _)
EveryLooksLikeSitemap(entries, k) ==
    IF k > Len(entries) THEN "true"
    ELSE IF entries[k].loc = NoLoc THEN "throws"
    ELSE IF ~LooksLikeSitemap(entries[k].loc) THEN "false"
    ELSE EveryLooksLikeSitemap(entries, k + 1)

\* mutant: the test of the first entry left out
IsSitemapIndex_EveryOnly(entries) ==
    IF Len(entries) = 0 THEN "false"
    ELSE EveryLooksLikeSitemap(entries, 1)

\* the two conditions of POST on the top-level entries: "true" when nested
\* sitemaps are to be fetched, "false" when not, "throws" on a TypeError
IsSitemapIndex(entries) ==
    IF Len(entries) = 0 THEN "false"
    ELSE IF entries[1].loc = NoLoc THEN "throws"
    ELSE IF ~Includes(entries[1].loc, SitemapWord) THEN "false"
    ELSE EveryLooksLikeSitemap(entries, 1)

\* mutant: the nested entries are the result even when there is none
ResolvedUrls_NoFallback(entries, nestedUrls) == nestedUrls

\* if (nestedUrls.length > 0) urls = nestedUrls
ResolvedUrls(entries, nestedUrls) ==
    IF Len(nestedUrls) > 0 THEN nestedUrls ELSE entries

\* the response to a body without a usable url
ParseRejected(message) ==
    [response |-> [ok |-> FALSE, status |-> 400, error |-> message],
     fetched |-> <<>>]

\* the response of POST's catch block
ParseFailure(status, message, fetchedUrls) ==
    [response |-> [ok |-> FALSE, status |-> status, error |-> message,
                   urls |-> <<>>, totalUrls |-> 0],
     fetched |-> fetchedUrls]

ParseSuccess(entries, fetchedUrls) ==
    [response |-> [ok |-> TRUE, status |-> 200, error |-> NoError,
                   urls |-> entries, totalUrls |-> Len(entries)],
     fetched |-> fetchedUrls]

\* POST: the response and the URLs fetched, for a body that is not JSON
\* ("badJson"), has no url ("missing") or has one ("url")
RunParseSitemap(body, w) ==
    IF body.kind = "badJson"
    THEN ParseFailure(500, "Unexpected end of JSON input", <<>>)
    ELSE IF body.kind = "missing" \/ body.url = <<>>
    THEN ParseRejected("Sitemap URL is required")
    ELSE IF ~IsValidUrl(body.url)
    THEN ParseRejected("Invalid URL format")
    ELSE LET top == FetchAndParse(w, body.url)
         IN  IF ~top.ok THEN ParseFailure(500, top.message, <<body.url>>)
             ELSE LET entries == parseSitemapXml(top)
                      isIndex == IsSitemapIndex(entries)
                      nested == fetchNestedSitemaps(w, entries)
                  IN  IF isIndex = "throws"
                      THEN ParseFailure(500,
                               "Cannot read properties of undefined", <<body.url>>)
                      ELSE IF isIndex = "false"
                      THEN ParseSuccess(entries, <<body.url>>)
                      ELSE ParseSuccess(ResolvedUrls(entries, nested.allUrls),
                                        <<body.url>> \o nested.fetched)

-----------------------------------------------------------------------------
(* SpecFetchMeta: the fetch-meta route applied to request bodies of every   *)
(* kind, to short lists with repeated URLs and to lists around the sizes    *)
(* the route cuts at, with pages failing in every way.                      *)

MaxReqLen == 52

PageUrl(i) == LocA \o <<"?">> \o Digits(i)

ReqList(n) == [i \in 1..n |-> PageUrl(i)]

ReqLens == {RouteBatchSize, RouteBatchSize + 1, RouteUrlCap - 1, RouteUrlCap,
            RouteUrlCap + 1, MaxReqLen}

MetaBodies ==
    {[kind |-> k] : k \in {"badJson", "missing", "notList"}}
    \cup {[kind |-> "list", urls |-> l] :
             l \in SeqsUpTo({PageUrl(1), PageUrl(2)}, 2)
                   \cup {ReqList(n) : n \in ReqLens}}

\* the positions of a list whose pages may fail
FailPositions == {1, 2, RouteBatchSize, RouteBatchSize + 1, RouteUrlCap,
                  RouteUrlCap + 1}

MetaWebs(body) ==
    IF body.kind # "list" THEN {[kind |-> "pages", bad |-> <<>>]}
    ELSE {[kind |-> "pages", bad |-> [u \in {body.urls[k] : k \in I} |-> f]] :
             I \in SUBSET (FailPositions \cap (1..Len(body.urls))),
             f \in PageFailures}

FetchMetaInit ==
    /\ phase = "metaIn"
    /\ urls = <<>>
    /\ maxPathsPerParent = DefaultMaxPaths
    /\ tree = EmptyRoot
    /\ stats = EmptyStats
    /\ limitedUrls = <<>>
    /\ sitemapUrl = <<>>
    /\ metaResults = <<>>
    /\ isLoadingSitemap = FALSE
    /\ isFetchingMeta = FALSE
    /\ progress = 0
    /\ error = NoError
    /\ selectedUrls = <<>>
    /\ expandedPaths = {}
    /\ selectedPath = NoPath
    /\ hasSearched = FALSE
    /\ run = NoRun
    /\ requests = <<>>
    /\ last = NoLast
    /\ reqBody \in MetaBodies
    /\ web \in MetaWebs(reqBody)
    /\ response = NoResponse
    /\ fetched = <<>>
    /\ route = NoRoute

\* POST of the fetch-meta route
PostFetchMetaRoute ==
    /\ phase = "metaIn"
    /\ LET r == RunFetchMeta(reqBody, web.bad)
       IN  /\ response' = r.response
           /\ fetched' = r.fetched
    /\ phase' = "metaOut"
    /\ UNCHANGED <<reqBody, web, route>>
    /\ UNCHANGED <<urls, maxPathsPerParent, tree, stats, limitedUrls>>
    /\ UNCHANGED pageOnly

FetchMetaNext == PostFetchMetaRoute

SpecFetchMeta == FetchMetaInit /\ [][FetchMetaNext]_vars

\* C12: for a list of 1 to 50 URLs the response holds one record per URL at
\* the URL's index; the record of a page that failed has status 'error', a
\* non-empty error string and every other field at its empty default, the
\* record of any other page has not; no failure shortens the list.
C12_OneRecordPerUrl ==
    (/\ phase = "metaOut"
     /\ reqBody.kind = "list"
     /\ Len(reqBody.urls) \in 1..50) =>
        /\ response.ok
        /\ Len(response.results) = Len(reqBody.urls)
        /\ \A k \in 1..Len(reqBody.urls) :
              LET r == response.results[k]
              IN  /\ r.url = reqBody.urls[k]
                  /\ IF reqBody.urls[k] \in DOMAIN web.bad
                     THEN /\ r.status = "error"
                          /\ r.error \notin {"", NoError}
                          /\ [r EXCEPT !.status = "", !.error = NoError]
                                = EmptyMeta(reqBody.urls[k])
                     ELSE r.status = "success"

\* fifty URLs of which the first and the last fail, the others not
C12_Witness ==
    /\ phase = "metaOut"
    /\ reqBody.kind = "list"
    /\ Len(reqBody.urls) = 50
    /\ DOMAIN web.bad = {reqBody.urls[1], reqBody.urls[50]}
    /\ response.errorCount = 2
    /\ response.results[50].status = "error"
    /\ response.results[49].status = "success"

\* C14: for a non-empty list of n URLs the results and processedCount have
\* length and value min(n, 50) and the pages fetched are the first min(n, 50)
\* URLs; a body whose urls is missing, not a list or empty gets an error
\* response and no page is fetched.
C14_FirstFiftyOnly ==
    phase = "metaOut" =>
        /\ (reqBody.kind = "list" /\ reqBody.urls # <<>>) =>
              LET n == Len(reqBody.urls)
                  m == IF n < 50 THEN n ELSE 50
              IN  /\ Len(response.results) = m
                  /\ response.processedCount = m
                  /\ fetched = SubSeq(reqBody.urls, 1, m)
                  /\ \A k \in 51..n : reqBody.urls[k] \notin Range(fetched)
        /\ (reqBody.kind \in {"missing", "notList"}
            \/ (reqBody.kind = "list" /\ reqBody.urls = <<>>)) =>
              /\ ~response.ok
              /\ response.status = 400
              /\ response.error # NoError
              /\ fetched = <<>>

\* a request of 52 URLs answered with 50 records
C14_Witness ==
    /\ phase = "metaOut"
    /\ reqBody.kind = "list"
    /\ Len(reqBody.urls) = MaxReqLen
    /\ response.processedCount = 50
    /\ Len(fetched) = 50

\* C13: whatever fails during a fetch run, a page fetch or a whole batch
\* request, the run ends with a result list that holds one record per URL of
\* the run, in the order of the URLs.
C13_RunNeverFailsAsAWhole ==
    [][(run.active /\ ~run'.active) =>
          [k \in 1..Len(metaResults') |-> metaResults'[k].url] = run.urlsToFetch]_vars

-----------------------------------------------------------------------------
(* SpecParseSitemap: the parse-sitemap route applied to request bodies of   *)
(* every kind and to webs whose top-level document is a urlset or a sitemap *)
(* index of up to MaxTopEntries entries, or an index of NestedCap - 1 to    *)
(* MaxRefs references, the nested sitemaps failing or not.                  *)

MaxTopEntries == 2
MaxRefs == 12

\* H/sitemap<i>.xml
RefLoc(i) == <<"H", "/">> \o SitemapWord \o Digits(i) \o DotXml

\* H/a.xml: ends in .xml and has no 'sitemap' in it
XmlLoc == <<"H", "/", "a">> \o DotXml

\* H/sitemap: has 'sitemap' in it and does not end in .xml
WordLoc == <<"H", "/">> \o SitemapWord

\* a reference that only a nested index holds
DeepLoc == <<"H", "/", "d", "/">> \o SitemapWord \o DotXml

TopLocs == {RefLoc(1), RefLoc(2), XmlLoc, WordLoc, LocA, NoLoc}

Urlset(locs) == Document([k \in 1..Len(locs) |-> Entry(locs[k])], <<>>)

SitemapIndex(locs) == Document(<<>>, [k \in 1..Len(locs) |-> Entry(locs[k])])

RefList(n) == [i \in 1..n |-> RefLoc(i)]

TopDocuments ==
    {Urlset(l) : l \in SeqsUpTo(TopLocs, MaxTopEntries)}
    \cup {SitemapIndex(l) : l \in SeqsUpTo(TopLocs, MaxTopEntries)}
    \cup {SitemapIndex(RefList(n)) : n \in {NestedCap - 1, NestedCap, MaxRefs}}

NotFound == FetchFailed("Failed to fetch sitemap: 404 Not Found")

\* the nested sitemaps whose outcome is always the same
FixedSitemaps ==
    (DeepLoc :> Urlset(<<LocABA>>))
    @@ [l \in {RefLoc(i) : i \in 3..MaxRefs} |->
           Urlset(<<PageUrl(CHOOSE i \in 3..MaxRefs : l = RefLoc(i))>>)]

\* what fetching each URL gives: the top-level document, or a failure, at
\* SiteUrl; a failure, page entries, no entry or a further index at
\* RefLoc(1); a failure to fetch, a failure to parse or entries of which one
\* has no loc at RefLoc(2); a failure or one page entry at XmlLoc and WordLoc
ParseWebs ==
    {[kind |-> "sitemaps",
      at |-> (SiteUrl :> top) @@ (RefLoc(1) :> o1) @@ (RefLoc(2) :> o2)
             @@ (XmlLoc :> o3) @@ (WordLoc :> o4) @@ FixedSitemaps] :
        top \in TopDocuments \cup {NotFound},
        o1 \in {NotFound, Urlset(<<LocA, LocAA>>), Urlset(<<>>),
                SitemapIndex(<<DeepLoc>>)},
        o2 \in {NotFound, FetchFailed("Unexpected end of input"),
                Urlset(<<LocB, NoLoc>>)},
        o3 \in {NotFound, Urlset(<<LocAB>>)},
        o4 \in {NotFound, Urlset(<<LocAB>>)}}

ParseBodies ==
    {[kind |-> "badJson"], [kind |-> "missing"]}
    \cup {[kind |-> "url", url |-> u] : u \in {<<>>, LocBad, SiteUrl}}

ParseSitemapInit ==
    /\ phase = "parseIn"
    /\ urls = <<>>
    /\ maxPathsPerParent = DefaultMaxPaths
    /\ tree = EmptyRoot
    /\ stats = EmptyStats
    /\ limitedUrls = <<>>
    /\ sitemapUrl = <<>>
    /\ metaResults = <<>>
    /\ isLoadingSitemap = FALSE
    /\ isFetchingMeta = FALSE
    /\ progress = 0
    /\ error = NoError
    /\ selectedUrls = <<>>
    /\ expandedPaths = {}
    /\ selectedPath = NoPath
    /\ hasSearched = FALSE
    /\ run = NoRun
    /\ requests = <<>>
    /\ last = NoLast
    /\ reqBody \in ParseBodies
    /\ web \in (IF reqBody = [kind |-> "url", url |-> SiteUrl]
                THEN ParseWebs
                ELSE {[kind |-> "sitemaps", at |-> FixedSitemaps]})
    /\ response = NoResponse
    /\ fetched = <<>>
    /\ route = NoRoute

\* POST of the parse-sitemap route
PostParseSitemapRoute ==
    /\ phase = "parseIn"
    /\ LET r == RunParseSitemap(reqBody, web.at)
       IN  /\ response' = r.response
           /\ fetched' = r.fetched
    /\ phase' = "parseOut"
    /\ UNCHANGED <<reqBody, web, route>>
    /\ UNCHANGED <<urls, maxPathsPerParent, tree, stats, limitedUrls>>
    /\ UNCHANGED pageOnly

ParseSitemapNext == PostParseSitemapRoute

SpecParseSitemap == ParseSitemapInit /\ [][ParseSitemapNext]_vars

-----------------------------------------------------------------------------
(* Vocabulary of the claims about a resolution *)

\* what the web holds for a URL
Outcome(loc) ==
    IF loc \in DOMAIN web.at THEN web.at[loc] ELSE NotFound

\* the request was accepted and the top-level document fetched and parsed
Resolved ==
    /\ phase = "parseOut"
    /\ reqBody = [kind |-> "url", url |-> SiteUrl]
    /\ Outcome(SiteUrl).ok

\* the entries of the top-level document
TopEntries == Outcome(SiteUrl).urlset \o Outcome(SiteUrl).sitemapindex

\* nested sitemaps were fetched
NestedIssued == Len(fetched) > 1

NestedFetched == SubSeq(fetched, 2, Len(fetched))

HasLoc(entry) == entry.loc # NoLoc

\* the entries of the documents at locs, in order, a failure giving none
RECURSIVE EntriesAt(_)
EntriesAt(locs) ==
    IF locs = <<>> THEN <<>>
    ELSE (IF Outcome(Head(locs)).ok
          THEN Outcome(Head(locs)).urlset \o Outcome(Head(locs)).sitemapindex
          ELSE <<>>)
         \o EntriesAt(Tail(locs))

\* the locs of the first ten entries at most
FirstTenLocs(entries) ==
    [k \in 1..(IF Len(entries) < 10 THEN Len(entries) ELSE 10) |-> entries[k].loc]

\* C15 as claimed: when nested sitemaps are fetched and one of them fails,
\* the others are still fetched, the response is not an error, and the result
\* is the concatenation, in reference order, of the entries of those that did
\* not fail.
C15_FailSoftConcatenation ==
    (/\ Resolved
     /\ NestedIssued
     /\ \E k \in 1..Len(NestedFetched) : ~Outcome(NestedFetched[k]).ok) =>
        /\ NestedFetched = FirstTenLocs(TopEntries)
        /\ response.ok
        /\ response.urls = EntriesAt(NestedFetched)

\* C15 as amended: the same, the result being that concatenation when it is
\* not empty and the entries of the top-level document when it is.
C15_FailSoftWithFallback ==
    (/\ Resolved
     /\ NestedIssued
     /\ \E k \in 1..Len(NestedFetched) : ~Outcome(NestedFetched[k]).ok) =>
        /\ NestedFetched = FirstTenLocs(TopEntries)
        /\ response.ok
        /\ response.urls = (IF EntriesAt(NestedFetched) # <<>>
                            THEN EntriesAt(NestedFetched)
                            ELSE TopEntries)

\* an index of two references of which the second fails: the entries of the
\* first are the result
C15_Witness ==
    /\ Resolved
    /\ Outcome(SiteUrl) = SitemapIndex(<<RefLoc(1), RefLoc(2)>>)
    /\ Outcome(RefLoc(1)) = Urlset(<<LocA, LocAA>>)
    /\ ~Outcome(RefLoc(2)).ok
    /\ fetched = <<SiteUrl, RefLoc(1), RefLoc(2)>>
    /\ response.urls = <<Entry(LocA), Entry(LocAA)>>

\* C16: no entry of the result lacks a loc, and when no nested sitemap is
\* fetched the result holds the entries of the top-level document that have
\* one.
C16_EntriesWithoutLocExcluded ==
    Resolved =>
        /\ response.ok => \A k \in 1..Len(response.urls) : HasLoc(response.urls[k])
        /\ ~NestedIssued =>
              /\ response.ok
              /\ response.urls = SelectSeq(TopEntries, HasLoc)

\* C17: when a nested sitemap that was fetched is itself an index, its
\* references are fetched too, and every entry of the result is a url entry
\* of a document that was fetched.
C17_RecursiveResolution ==
    (/\ Resolved
     /\ response.ok
     /\ \E k \in 1..Len(NestedFetched) :
           /\ Outcome(NestedFetched[k]).ok
           /\ Outcome(NestedFetched[k]).sitemapindex # <<>>) =>
        /\ \A k \in 1..Len(NestedFetched) :
              Outcome(NestedFetched[k]).ok =>
                 \A c \in Range(Outcome(NestedFetched[k]).sitemapindex) :
                    c.loc \in Range(fetched)
        /\ \A e \in Range(response.urls) :
              \E loc \in Range(fetched) :
                 Outcome(loc).ok /\ e \in Range(Outcome(loc).urlset)

\* C18: a top-level urlset, every entry with its loc, is answered with its
\* entries in document order, and nothing but the top-level URL is fetched.
C18_UrlsetReturnedDirectly ==
    (/\ Resolved
     /\ Outcome(SiteUrl).urlset # <<>>
     /\ Outcome(SiteUrl).sitemapindex = <<>>
     /\ \A e \in Range(Outcome(SiteUrl).urlset) : HasLoc(e)) =>
        /\ response.ok
        /\ response.urls = Outcome(SiteUrl).urlset
        /\ fetched = <<SiteUrl>>

\* a loc that ends in '.xml' or has 'sitemap' in it
SitemapLike(entry) ==
    /\ HasLoc(entry)
    /\ EndsWith(entry.loc, <<".", "x", "m", "l">>)
       \/ Includes(entry.loc, <<"s", "i", "t", "e", "m", "a", "p">>)

\* the first ten references at most are fetched, in order, and no other
AtMostTenFetched ==
    NestedIssued =>
        /\ NestedFetched = FirstTenLocs(TopEntries)
        /\ \A k \in 11..Len(TopEntries) : TopEntries[k].loc \notin Range(fetched)

\* C20 as claimed: nested sitemaps are fetched exactly when the top-level
\* result is not empty and every entry's loc ends in '.xml' or has 'sitemap'
\* in it; then the first ten entries at most are fetched and no other.
C20_IndexWhenEverySitemapLike ==
    Resolved =>
        /\ NestedIssued <=>
              /\ TopEntries # <<>>
              /\ \A e \in Range(TopEntries) : SitemapLike(e)
        /\ AtMostTenFetched

\* C20 as amended: the same, with the further condition that the loc of the
\* first entry has 'sitemap' in it.
C20_IndexWhenFirstHasSitemap ==
    Resolved =>
        /\ NestedIssued <=>
              /\ TopEntries # <<>>
              /\ HasLoc(TopEntries[1])
              /\ Includes(TopEntries[1].loc, <<"s", "i", "t", "e", "m", "a", "p">>)
              /\ \A e \in Range(TopEntries) : SitemapLike(e)
        /\ AtMostTenFetched

\* an index of more than ten references: ten are fetched, the eleventh not
C20_Witness ==
    /\ Resolved
    /\ Len(TopEntries) = MaxRefs
    /\ Len(NestedFetched) = 10
    /\ RefLoc(10) \in Range(fetched)
    /\ RefLoc(11) \notin Range(fetched)
    /\ Len(response.urls) >= 8

\* the URLs of the section of the tree that a selected path names: the root's
\* own URLs for '/', the URLs of the node and of its descendants otherwise
SectionLocs(path) ==
    IF path = <<"/">> THEN Range(Locs(tree.urls))
    ELSE IF getNodeByPath(tree, path).found
    THEN Range(Locs(getAllOriginalUrlsFromNode(getNodeByPath(tree, path).node)))
    ELSE {}

\* C19: with a path selected the results shown are the fetched records whose
\* URL is in the section of the node with that path, in the order of the
\* results; the records of a section whose name only starts with the same
\* characters are not among them.
C19_FilterShowsSection ==
    (phase = "page" /\ selectedPath # NoPath /\ metaResults # <<>>) =>
        filteredResults =
            SelectSeq(metaResults, LAMBDA r : r.url \in SectionLocs(selectedPath))

\* C21: when nested sitemaps are fetched and none of them gives an entry,
\* the response is not an error and holds the entries of the top-level
\* document as they are, totalUrls being their number.
C21_FallbackToOuterList ==
    (Resolved /\ NestedIssued /\ EntriesAt(NestedFetched) = <<>>) =>
        /\ response.ok
        /\ response.status = 200
        /\ response.urls = TopEntries
        /\ response.totalUrls = Len(TopEntries)

\* two references, the first answered with an empty urlset, the second not
\* found: the two references are the result
C21_Witness ==
    /\ Resolved
    /\ TopEntries = <<Entry(RefLoc(1)), Entry(RefLoc(2))>>
    /\ Outcome(RefLoc(1)) = Urlset(<<>>)
    /\ ~Outcome(RefLoc(2)).ok
    /\ fetched = <<SiteUrl, RefLoc(1), RefLoc(2)>>
    /\ response.urls = TopEntries
    /\ response.totalUrls = 2

-----------------------------------------------------------------------------
(* SpecFetchRun: one fetch run of the page against the fetch-meta route,     *)
(* the route taken step by step: page.tsx handleFetchMetaTags on one side,   *)
(* part_000 POST, processUrl and fetchPageContent on the other.  A page      *)
(* fetch is issued with its timer armed (stage "headers"); the fetch promise *)
(* settles or the timer fires; response.text() is returned (stage "body");   *)
(* the body arrives, or never does for a page of web.stalls.                 *)

MaxRunLen == 12

\* mutant: every URL from i on is fetched at once
IssueFetches_All(urlsToProcess, i) ==
    [k \in 1..(Len(urlsToProcess) - i) |->
        [url |-> urlsToProcess[i + k], stage |-> "headers", timer |-> TRUE,
         record |-> EmptyMeta(urlsToProcess[i + k])]]

\* batch.map(processUrl) for the sub-batch at i: every fetch of it is issued
IssueFetches(urlsToProcess, i) ==
    LET batch == Slice(urlsToProcess, i, i + RouteBatchSize)
    IN  [k \in 1..Len(batch) |->
            [url |-> batch[k], stage |-> "headers", timer |-> TRUE,
             record |-> EmptyMeta(batch[k])]]

\* POST from the request to its first await, for a non-empty list
RouteReceive(reqUrls) ==
    [busy |-> TRUE, urlsToProcess |-> UrlsToProcess(reqUrls), i |-> 0,
     results |-> <<>>, fetches |-> IssueFetches(UrlsToProcess(reqUrls), 0)]

\* processUrl of fetch k returns record: when it is the last of its
\* sub-batch, Promise.all resolves, the records are pushed in the order of
\* the sub-batch and the next sub-batch is issued or the loop ends
AfterSettle(r, k, record) ==
    LET fs == [r.fetches EXCEPT ![k] = [@ EXCEPT !.stage = "settled",
                                                 !.timer = FALSE,
                                                 !.record = record]]
        results == r.results \o [j \in 1..Len(fs) |-> fs[j].record]
        i == r.i + RouteBatchSize
    IN  IF \E j \in 1..Len(fs) : fs[j].stage # "settled"
        THEN [r EXCEPT !.fetches = fs]
        ELSE IF i < Len(r.urlsToProcess)
        THEN [r EXCEPT !.i = i, !.results = results,
                       !.fetches = IssueFetches(r.urlsToProcess, i)]
        ELSE [r EXCEPT !.busy = FALSE, !.i = i, !.results = results,
                       !.fetches = <<>>]

\* NextResponse.json(response) once the loop has ended
RouteResponse(r, old) ==
    IF r.busy THEN old
    ELSE [ok |-> TRUE, status |-> 200, error |-> NoError, results |-> r.results,
          processedCount |-> Len(r.results), errorCount |-> ErrorCount(r.results)]

RunLens == {1, RouteBatchSize + 1, MaxRunLen}

\* the pages of a run: all of them answer in time, but for one that fails in
\* some way, and for one whose body never arrives
RunWebs(list) ==
    {[kind |-> "pages", bad |-> [u \in B |-> f], stalls |-> S] :
        B \in {{}, {list[1]}, {list[Len(list)]}},
        f \in PageFailures,
        S \in {{}, {list[Len(list)]}}}

FetchRunInit ==
    /\ phase = "runIn"
    /\ urls = <<>>
    /\ maxPathsPerParent = DefaultMaxPaths
    /\ tree = EmptyRoot
    /\ stats = EmptyStats
    /\ limitedUrls = <<>>
    /\ sitemapUrl = <<>>
    /\ metaResults = <<>>
    /\ isLoadingSitemap = FALSE
    /\ isFetchingMeta = FALSE
    /\ progress = 0
    /\ error = NoError
    /\ selectedUrls \in {ReqList(n) : n \in RunLens}
    /\ expandedPaths = {}
    /\ selectedPath = NoPath
    /\ hasSearched = TRUE
    /\ run = NoRun
    /\ requests = <<>>
    /\ last = NoLast
    /\ reqBody = NoBody
    /\ web \in RunWebs(selectedUrls)
    /\ response = NoResponse
    /\ fetched = <<>>
    /\ route = NoRoute

runOnly == <<urls, maxPathsPerParent, tree, stats, limitedUrls, sitemapUrl,
             isLoadingSitemap, selectedUrls, expandedPaths, selectedPath,
             hasSearched, last, web>>

\* handleFetchMetaTags up to its first await; the route receives the request
ClientStart ==
    /\ phase = "runIn"
    /\ Len(selectedUrls) # 0
    /\ phase' = "running"
    /\ isFetchingMeta' = TRUE
    /\ error' = NoError
    /\ metaResults' = <<>>
    /\ progress' = 0
    /\ LET urlsToFetch == selectedUrls
           batch == Slice(urlsToFetch, 0, FetchBatchSize)
       IN  /\ run' = [active |-> TRUE, urlsToFetch |-> urlsToFetch, i |-> 0,
                      allResults |-> <<>>, batch |-> batch]
           /\ requests' = <<batch>>
           /\ reqBody' = [kind |-> "list", urls |-> batch]
           /\ route' = RouteReceive(batch)
           /\ fetched' = Slice(batch, 0, RouteBatchSize)
    /\ response' = NoResponse
    /\ UNCHANGED runOnly

\* the fetch promise of page fetch k settles: it rejects, or resolves with a
\* response that is not ok, and processUrl returns the error record; or it
\* resolves with an ok response, response.text() is returned and the finally
\* block clears the timer
FetchSettles(k) ==
    /\ phase = "running"
    /\ route.busy
    /\ k \in 1..Len(route.fetches)
    /\ route.fetches[k].stage = "headers"
    /\ LET url == route.fetches[k].url
           failure == IF url \in DOMAIN web.bad THEN web.bad[url] ELSE "none"
       IN  /\ failure # "timeout"
           /\ route' = IF failure \in {"http", "network", "nonError"}
                       THEN AfterSettle(route, k, processUrl(url, web.bad))
                       ELSE [route EXCEPT !.fetches[k].stage = "body",
                                          !.fetches[k].timer = FALSE]
    /\ response' = RouteResponse(route', response)
    /\ fetched' = IF route'.i # route.i
                  THEN fetched \o [j \in 1..Len(route'.fetches) |-> route'.fetches[j].url]
                  ELSE fetched
    /\ UNCHANGED <<phase, isFetchingMeta, error, metaResults, progress, run,
                   requests, reqBody>>
    /\ UNCHANGED runOnly

\* the timer of page fetch k fires before the fetch promise has settled:
\* controller.abort(), the fetch rejects, processUrl returns the error record
TimerFires(k) ==
    /\ phase = "running"
    /\ route.busy
    /\ k \in 1..Len(route.fetches)
    /\ route.fetches[k].stage = "headers"
    /\ route.fetches[k].timer
    /\ LET url == route.fetches[k].url
       IN  /\ url \in DOMAIN web.bad
           /\ web.bad[url] = "timeout"
           /\ route' = AfterSettle(route, k, processUrl(url, web.bad))
    /\ response' = RouteResponse(route', response)
    /\ fetched' = IF route'.i # route.i
                  THEN fetched \o [j \in 1..Len(route'.fetches) |-> route'.fetches[j].url]
                  ELSE fetched
    /\ UNCHANGED <<phase, isFetchingMeta, error, metaResults, progress, run,
                   requests, reqBody>>
    /\ UNCHANGED runOnly

\* the body of page k has arrived: extractMetaTags returns the record or
\* throws
BodyArrives(k) ==
    /\ phase = "running"
    /\ route.busy
    /\ k \in 1..Len(route.fetches)
    /\ route.fetches[k].stage = "body"
    /\ route.fetches[k].url \notin web.stalls
    /\ route' = AfterSettle(route, k, processUrl(route.fetches[k].url, web.bad))
    /\ response' = RouteResponse(route', response)
    /\ fetched' = IF route'.i # route.i
                  THEN fetched \o [j \in 1..Len(route'.fetches) |-> route'.fetches[j].url]
                  ELSE fetched
    /\ UNCHANGED <<phase, isFetchingMeta, error, metaResults, progress, run,
                   requests, reqBody>>
    /\ UNCHANGED runOnly

\* handleFetchMetaTags from an await on, the response being there: the
\* results are appended and the next batch is requested, or the run ends
ClientReceives ==
    /\ phase = "running"
    /\ run.active
    /\ response # NoResponse
    /\ LET allResults == run.allResults \o response.results
           i == NextIndex(run.i)
           batch == Slice(run.urlsToFetch, i, i + FetchBatchSize)
       IN  /\ metaResults' = allResults
           /\ IF i < Len(run.urlsToFetch)
              THEN /\ progress' = RoundPercent(Len(allResults), Len(run.urlsToFetch))
                   /\ run' = [run EXCEPT !.i = i, !.allResults = allResults,
                                         !.batch = batch]
                   /\ requests' = Append(requests, batch)
                   /\ reqBody' = [kind |-> "list", urls |-> batch]
                   /\ route' = RouteReceive(batch)
                   /\ fetched' = fetched \o Slice(batch, 0, RouteBatchSize)
                   /\ UNCHANGED isFetchingMeta
              ELSE /\ progress' = 100
                   /\ isFetchingMeta' = FALSE
                   /\ run' = NoRun
                   /\ requests' = <<>>
                   /\ UNCHANGED <<reqBody, route, fetched>>
    /\ response' = NoResponse
    /\ UNCHANGED <<phase, error>>
    /\ UNCHANGED runOnly

\* handleFetchMetaTags from an await on, the request failing on its way:
\* the run ends; the route goes on with the request it has
ClientRequestFails(message) ==
    /\ phase = "running"
    /\ run.active
    /\ response = NoResponse
    /\ error' = message
    /\ isFetchingMeta' = FALSE
    /\ progress' = 100
    /\ run' = NoRun
    /\ requests' = <<>>
    /\ UNCHANGED <<phase, metaResults, reqBody, response, fetched, route>>
    /\ UNCHANGED runOnly

FetchRunNext ==
    \/ ClientStart
    \/ \E k \in 1..RouteBatchSize : FetchSettles(k)
    \/ \E k \in 1..RouteBatchSize : TimerFires(k)
    \/ \E k \in 1..RouteBatchSize : BodyArrives(k)
    \/ ClientReceives
    \/ \E message \in FetchErrors : ClientRequestFails(message)

SpecFetchRun == FetchRunInit /\ [][FetchRunNext]_vars

\* the page fetches that are issued and not settled
InFlight == {k \in 1..Len(route.fetches) : route.fetches[k].stage # "settled"}

\* C22: while the route works on a request, the fetches issued and not
\* settled are fetches of one sub-batch of at most 5 consecutive URLs, issued
\* when the records of all earlier URLs of the request are pushed; the
\* request is the one batch the client waits for; so at most 5 page fetches
\* are in flight at any moment of a run.
C22_AtMostFiveInFlight ==
    /\ Cardinality(InFlight) <= 5
    /\ route.busy =>
          LET n == Len(route.urlsToProcess)
              upTo == IF route.i + 5 < n THEN route.i + 5 ELSE n
          IN  /\ route.i % 5 = 0
              /\ [j \in 1..Len(route.results) |-> route.results[j].url]
                    = SubSeq(route.urlsToProcess, 1, route.i)
              /\ [j \in 1..Len(route.fetches) |-> route.fetches[j].url]
                    = SubSeq(route.urlsToProcess, route.i + 1, upTo)
    /\ (route.busy /\ run.active) =>
          /\ reqBody.urls = run.batch
          /\ route.urlsToProcess = run.batch
          /\ response = NoResponse

\* the second sub-batch of the first request of a run of 12 URLs: five
\* fetches in flight, one of them reading its body while another waits for
\* its response
C22_Witness ==
    /\ run.active
    /\ Len(run.urlsToFetch) = 12
    /\ route.busy
    /\ route.i = 5
    /\ Cardinality(InFlight) = 5
    /\ \E j, k \in InFlight :
          route.fetches[j].stage = "headers" /\ route.fetches[k].stage = "body"

\* C25: the timer of a page fetch stays armed from the request until the
\* content is there or the fetch has failed: a fetch that has not settled
\* has its timer armed.
C25_TimerArmedUntilContent ==
    \A k \in 1..Len(route.fetches) :
        route.fetches[k].stage # "settled" => route.fetches[k].timer

-----------------------------------------------------------------------------
\* C26: for a built tree stats.totalOriginalUrls is the root's totalUrlCount,
\* stats.totalLimitedUrls is the root's limitedUrlCount and the number of
\* URLs getAllUrlsFromNode returns for the root, and every entry of the list
\* is counted once: the total is the number of valid entries, the limited
\* count the number of those whose node is included.
C26_StatsAgreeWithTree ==
    phase = "built" =>
        /\ stats.totalOriginalUrls = tree.totalUrlCount
        /\ stats.totalLimitedUrls = tree.limitedUrlCount
        /\ stats.totalLimitedUrls = Len(getAllUrlsFromNode(tree))
        /\ stats.totalOriginalUrls = Len(ValidUrls(urls))
        /\ stats.totalLimitedUrls =
              Len(SelectSeq(ValidUrls(urls),
                            LAMBDA u : PathParts(u.loc) \in IncludedPaths(tree)))

\* a tree where the limit excluded a part of the URLs
C26_Witness ==
    /\ phase = "built"
    /\ stats.totalLimitedUrls > 0
    /\ stats.totalLimitedUrls < stats.totalOriginalUrls
    /\ tree.limitedUrlCount = stats.totalLimitedUrls

-----------------------------------------------------------------------------
\* C27: isLoadingSitemap and isFetchingMeta are never both true, a fetch run
\* is in progress exactly while isFetchingMeta is true, and no step that
\* starts a resolution or a fetch run is taken while either flag is true.
C27_OneRequestAtATime ==
    /\ [](phase = "page" =>
            /\ ~(isLoadingSitemap /\ isFetchingMeta)
            /\ run.active <=> isFetchingMeta)
    /\ [][(ParseStart \/ FetchStart) =>
            (~isLoadingSitemap /\ ~isFetchingMeta)]_vars

\* a fetch run in progress with a sitemap URL typed in and URLs selected:
\* only the disabled controls keep a second request from starting
C27_Witness ==
    /\ phase = "page"
    /\ isFetchingMeta /\ run.active
    /\ Trim(sitemapUrl) # <<>>
    /\ Len(selectedUrls) > 0
    /\ ~SearchEnabled /\ ~AnalyzeEnabled

-----------------------------------------------------------------------------
\* C28: a step of the header's toggleSelectAll empties the selection only
\* when the selection is exactly the limited URL set; from every other
\* selection, one of the same size with other members included, it makes the
\* selection exactly the limited URL set.
C28_HeaderToggleByMembers ==
    [][toggleSelectAll =>
          /\ (Range(selectedUrls') = {} /\ Selected # {}) => Selected = LimitedSet
          /\ Selected # LimitedSet => Range(selectedUrls') = LimitedSet]_vars

-----------------------------------------------------------------------------
\* C29: on the page every selected URL is the loc of a valid entry of the
\* loaded list and of a URL attached to a node of the current tree.
C29_SelectionWithinLoadedList ==
    phase = "page" =>
        /\ Selected \subseteq Range(Locs(ValidUrls(urls)))
        /\ Selected \subseteq Range(Locs(getAllOriginalUrlsFromNode(tree)))

\* a sitemap loaded after an earlier one whose limit had been changed (the
\* limit input is there only with a list loaded): its valid URLs are selected
C29_Witness ==
    /\ phase = "page"
    /\ last.name = "parseOk"
    /\ maxPathsPerParent # DefaultMaxPaths
    /\ urls = RootSite
    /\ Selected = {LocRoot, LocB}

-----------------------------------------------------------------------------
(* SpecLive: the page, every request of which is answered or fails *)

\* the await of handleParseSitemap ends
ParseResponds ==
    \/ \E message \in ParseErrors : ParseFail(message)
    \/ \E list \in SiteLists : ParseOk(list)

\* an await of handleFetchMetaTags ends
FetchResponds ==
    \/ \E message \in FetchErrors : FetchBatchFail(message)
    \/ \E bad \in BadChoices(run.batch) : FetchBatchOk(bad)

SpecLive == Init /\ [][Next]_vars /\ WF_vars(ParseResponds) /\ WF_vars(FetchResponds)

\* C30: when every request is answered or fails, a started resolution ends
\* with isLoadingSitemap false and a started fetch run with isFetchingMeta
\* false and progress 100; a resolution that fails records the error, and a
\* fetch run that fails records the error, keeps the results it had and ends
\* at progress 100.
C30_OperationsTerminate ==
    /\ isLoadingSitemap ~> ~isLoadingSitemap
    /\ isFetchingMeta ~> (~isFetchingMeta /\ progress = 100)
    /\ [][(\E message \in ParseErrors : ParseFail(message)) =>
            (~isLoadingSitemap' /\ error' \in ParseErrors)]_vars
    /\ [][(\E message \in FetchErrors : FetchBatchFail(message)) =>
            /\ ~isFetchingMeta' /\ progress' = 100
            /\ error' \in FetchErrors
            /\ metaResults' = metaResults]_vars

\* a fetch run that failed in its second batch: it is over, at progress 100,
\* with the error and the results of the first batch
C30_Witness ==
    /\ phase = "page"
    /\ last.name = "fetchBatchFail"
    /\ ~isFetchingMeta /\ progress = 100
    /\ error \in FetchErrors
    /\ Len(metaResults) = FetchBatchSize

-----------------------------------------------------------------------------
(* SpecFlatten: flattenTree applied to the tree of every URL list of at most *)
(* MaxFlatUrls entries, in every input order, with the limits 1..MaxLimit,   *)
(* sets of expanded paths and selections.                                    *)

MaxFlatUrls == 3

FlatLocs == {LocA, LocAA, LocAB, LocABA, LocB}

\* sets of expanded paths: /a/b may be there without /a
ExpandedChoices == SUBSET {<<"/", "a">>, <<"/", "a", "/", "b">>}

\* selections: the locs of a run of consecutive entries of the list
SelectionChoices(list) ==
    {SetFrom(Locs(Slice(list, a, b))) : a \in 0..Len(list), b \in 0..Len(list)}

FlattenInit ==
    /\ phase = "flatIn"
    /\ urls \in SeqsUpTo({Entry(l) : l \in FlatLocs}, MaxFlatUrls)
    /\ maxPathsPerParent \in 1..MaxLimit
    /\ tree = EmptyRoot
    /\ stats = EmptyStats
    /\ limitedUrls = <<>>
    /\ sitemapUrl = <<>>
    /\ metaResults = <<>>
    /\ isLoadingSitemap = FALSE
    /\ isFetchingMeta = FALSE
    /\ progress = 0
    /\ error = NoError
    /\ selectedUrls \in SelectionChoices(urls)
    /\ expandedPaths \in ExpandedChoices
    /\ selectedPath = NoPath
    /\ hasSearched = TRUE
    /\ run = NoRun
    /\ requests = <<>>
    /\ last = NoLast
    /\ reqBody = NoBody
    /\ web = NoWeb
    /\ response = NoResponse
    /\ fetched = <<>>
    /\ route = NoRoute

\* the tree is built and the sidebar flattens it (flatNodes)
Flatten ==
    /\ phase = "flatIn"
    /\ LET r == buildPathTree(urls, maxPathsPerParent)
       IN  /\ tree' = r.tree
           /\ stats' = r.stats
           /\ limitedUrls' = getAllUrlsFromNode(r.tree)
    /\ phase' = "flat"
    /\ UNCHANGED <<urls, maxPathsPerParent>>
    /\ UNCHANGED pageOnly
    /\ UNCHANGED serverVars

FlattenNext == Flatten

SpecFlatten == FlattenInit /\ [][FlattenNext]_vars

\* the segments of a row's path
RowPath(row) == FilterNonEmpty(Split(row.fullPath, "/"))

\* the nodes below the root all of whose ancestors below the root are expanded
VisiblePaths ==
    {e.path : e \in {x \in PlacedIn(tree) :
        /\ x.path # <<>>
        /\ \A n \in 1..(Len(x.path) - 1) :
              NodeAt(tree, SubSeq(x.path, 1, n)).fullPath \in expandedPaths}}

\* p comes before q when a tree is walked depth-first, the siblings in
\* alphabetical order
RECURSIVE WalkedBefore(_, _)
WalkedBefore(p, q) ==
    IF q = <<>> THEN FALSE
    ELSE IF p = <<>> THEN TRUE
    ELSE IF Head(p) = Head(q) THEN WalkedBefore(Tail(p), Tail(q))
    ELSE StrLess(Head(p), Head(q))

\* C23: the rows are the nodes all of whose ancestors are expanded, once
\* each, in depth-first order with siblings in alphabetical order, at the
\* depth of their path; the row after a row is its first child, one deeper,
\* iff the row's path is expanded and the node has children; the children of
\* the root are rows of depth 0.
C23_RowsDepthFirstSorted ==
    phase = "flat" =>
        LET rows == flatNodes
        IN  /\ {RowPath(rows[k]) : k \in 1..Len(rows)} = VisiblePaths
            /\ Len(rows) = Cardinality(VisiblePaths)
            /\ \A k \in 1..Len(rows) : rows[k].depth = Len(RowPath(rows[k])) - 1
            /\ \A k \in 1..(Len(rows) - 1) :
                  WalkedBefore(RowPath(rows[k]), RowPath(rows[k + 1]))
            /\ \A k \in 1..Len(rows) :
                  (/\ rows[k].fullPath \in expandedPaths
                   /\ NodeAt(tree, RowPath(rows[k])).children # <<>>)
                  <=> (/\ k < Len(rows)
                       /\ rows[k + 1].depth = rows[k].depth + 1
                       /\ ParentPath(RowPath(rows[k + 1])) = RowPath(rows[k]))
            /\ \A j \in 1..Len(tree.children) :
                  \E k \in 1..Len(rows) :
                     /\ rows[k].fullPath = tree.children[j].fullPath
                     /\ rows[k].depth = 0

\* /b came first in the input; with /a and /a/b expanded the rows are /a,
\* /a/b, /a/b/a and /b
C23_Witness ==
    /\ phase = "flat"
    /\ urls = <<Entry(LocB), Entry(LocABA)>>
    /\ Len(flatNodes) = 4
    /\ flatNodes[1].depth = 0 /\ flatNodes[2].depth = 1
    /\ flatNodes[3].depth = 2 /\ flatNodes[4].depth = 0
    /\ flatNodes[4].fullPath = <<"/", "b">>

\* the entries of the input list in the subtree of a path, in input order
SubtreeUrls(path) ==
    SelectSeq(urls, LAMBDA u : IsValidUrl(u.loc) /\ IsPrefix(path, PathParts(u.loc)))

\* C24: in every row isSelected holds iff all URLs of the node's subtree are
\* selected, isPartiallySelected iff one at least is and one at least is
\* not, never both, and isLimited iff the node's totalUrlCount is larger
\* than its limitedUrlCount.
C24_RowTriState ==
    phase = "flat" =>
        \A k \in 1..Len(flatNodes) :
            LET row == flatNodes[k]
                sub == Range(Locs(SubtreeUrls(RowPath(row))))
                node == NodeAt(tree, RowPath(row))
            IN  /\ row.isSelected <=> sub \subseteq Selected
                /\ row.isPartiallySelected <=>
                      (sub \cap Selected # {} /\ sub \ Selected # {})
                /\ ~(row.isSelected /\ row.isPartiallySelected)
                /\ row.isLimited <=> node.totalUrlCount > node.limitedUrlCount

\* /a with two sub-pages under the limit 1, only /a's own page selected: the
\* row of /a is partially selected and limited
C24_Witness ==
    /\ phase = "flat"
    /\ urls = <<Entry(LocA), Entry(LocAA), Entry(LocAB)>>
    /\ maxPathsPerParent = 1
    /\ selectedUrls = <<LocA>>
    /\ flatNodes[1].isPartiallySelected
    /\ ~flatNodes[1].isSelected
    /\ flatNodes[1].isLimited

=============================================================================
